---- MODULE Spec2Model ----
(***************************************************************************)
(* Model of the VNA notation parsers of sangitam_notation:                 *)
(*   - VnaParser (editor/src/parser.ts): parse and validate, with the      *)
(*     instance fields lines and currentLine;                              *)
(*   - VNAParser (editor/src/lib/vna-parser.ts): the static line scanner;  *)
(*   - StaffCanvas (editor/src/types/gamaka.ts): the effective gati/tala;  *)
(*   - the wrappers of the wasm engine (editor/src/latex-pdf-generator.js):*)
(*     initializeWasm, getParser, parseVna, validateVna, formatVna;        *)
(*   - formatDocument of the editor integration;                           *)
(*   - parseSwaraLine of the two VNAParser classes (lib/vna-parser.ts and  *)
(*     lib/vna-parser-wasm.ts);                                            *)
(*   - VNAEditor (editor/src/types/gamaka.ts): the effect that parses the  *)
(*     content it is given.                                                *)
(* Text is modelled character by character: a line is a sequence of       *)
(* one-character strings and a content is the sequence of its lines, that  *)
(* is, the value of content.split('\n').                                   *)
(***************************************************************************)
EXTENDS Integers, Sequences, FiniteSets, TLC

VARIABLES
    content,      \* the text of the document being edited, the input of the calls
    lines,        \* VnaParser.lines
    currentLine,  \* VnaParser.currentLine
    call,         \* the last completed call
    result,       \* what that call returned or threw
    history,      \* what the earlier calls on the same VnaParser returned or threw
    wasmInitialized,  \* latex-pdf-generator.js: let wasmInitialized
    parserInstance,   \* latex-pdf-generator.js: let parserInstance, 0 for null
    instances,        \* the number of engine parsers created by new VnaParser()
    calls,            \* the calls of parseVna, validateVna and formatVna
    engineCalls,      \* the invocations of the engine's parse, validate and format
    editor,           \* VNAEditor: its state vnaDocument and error, and its parses
    scan              \* parse() run loop turn by loop turn: where it is, the lines read

wasmVars == <<wasmInitialized, parserInstance, instances, calls, engineCalls>>

parserVars == <<content, lines, currentLine, call, result, history, scan>>

editorVars == <<editor>>

vars == <<content, lines, currentLine, call, result, history,
          wasmInitialized, parserInstance, instances, calls, engineCalls, editor,
          scan>>

-----------------------------------------------------------------------------
(* JavaScript string primitives over sequences of characters.              *)

Q == "\""

IsSpace(c) == c = " "

Digits == {"0", "1", "2", "3", "4", "5", "6", "7", "8", "9"}

DigitVal ==
    ("0" :> 0) @@ ("1" :> 1) @@ ("2" :> 2) @@ ("3" :> 3) @@ ("4" :> 4) @@
    ("5" :> 5) @@ ("6" :> 6) @@ ("7" :> 7) @@ ("8" :> 8) @@ ("9" :> 9)

\* \w of the regular expressions: the letters of the texts used here, the
\* digits and the underscore.
WordChars ==
    {"a", "b", "c", "d", "e", "g", "i", "l", "m", "n", "o", "p", "r", "t", "x",
     "S", "R", "G", "M", "P", "D", "N", "_"} \cup Digits

RECURSIVE TrimLeft(_)
TrimLeft(s) ==
    IF s # <<>> /\ IsSpace(Head(s)) THEN TrimLeft(Tail(s)) ELSE s

RECURSIVE TrimRight(_)
TrimRight(s) ==
    IF s # <<>> /\ IsSpace(s[Len(s)]) THEN TrimRight(SubSeq(s, 1, Len(s) - 1)) ELSE s

Trim(s) == TrimRight(TrimLeft(s))

StartsWith(s, p) == Len(s) >= Len(p) /\ SubSeq(s, 1, Len(p)) = p

EndsWith(s, p) == Len(s) >= Len(p) /\ SubSeq(s, Len(s) - Len(p) + 1, Len(s)) = p

Includes(s, c) == \E i \in 1..Len(s) : s[i] = c

\* s.substring(n)
Substring(s, n) == SubSeq(s, n + 1, Len(s))

\* index (1-based) of the first occurrence of c in s, Len(s)+1 when there is none
IndexOf(s, c) ==
    IF Includes(s, c)
    THEN CHOOSE i \in 1..Len(s) : s[i] = c /\ \A j \in 1..(i - 1) : s[j] # c
    ELSE Len(s) + 1

\* s.split(c) for a one-character separator
RECURSIVE Split(_, _)
Split(s, c) ==
    IF ~Includes(s, c) THEN <<s>>
    ELSE <<SubSeq(s, 1, IndexOf(s, c) - 1)>> \o Split(Substring(s, IndexOf(s, c)), c)

\* s.trim().split(/\s+/).filter(t => t !== '')
RECURSIVE Words(_)
Words(s) ==
    LET t == TrimLeft(s)
        n == IndexOf(t, " ")
    IN IF t = <<>> THEN <<>>
       ELSE <<SubSeq(t, 1, n - 1)>> \o Words(SubSeq(t, n, Len(t)))

\* Optional values: undefined, a number, NaN, a string.
Undef == [k |-> "undef", n |-> 0, s |-> <<>>]
Num(n) == [k |-> "num", n |-> n, s |-> <<>>]
NaN == [k |-> "nan", n |-> 0, s |-> <<>>]
Str(s) == [k |-> "str", n |-> 0, s |-> s]

\* JavaScript truthiness of such a value
Truthy(v) ==
    \/ v.k = "num" /\ v.n # 0
    \/ v.k = "str" /\ v.s # <<>>

RECURSIVE DigitsValue(_, _)
DigitsValue(s, acc) ==
    IF s = <<>> \/ Head(s) \notin Digits THEN acc
    ELSE DigitsValue(Tail(s), 10 * acc + DigitVal[Head(s)])

\* parseInt(s, 10): leading white space, an optional sign, the longest run of
\* digits; NaN when there is no digit.
parseInt(s) ==
    LET t == TrimLeft(s)
        neg == t # <<>> /\ Head(t) = "-"
        u == IF t # <<>> /\ Head(t) \in {"-", "+"} THEN Tail(t) ELSE t
    IN IF u = <<>> \/ Head(u) \notin Digits THEN NaN
       ELSE Num(IF neg THEN 0 - DigitsValue(u, 0) ELSE DigitsValue(u, 0))

-----------------------------------------------------------------------------
(* VnaParser.parseNotationLine (parser.ts)                                 *)

BAR == "|"

\* the syllable boundary marker (the backquote), which a TLA+ string cannot hold
TICK == "^"

RECURSIVE NotationFold(_, _, _, _)
NotationFold(beats, i, tokens, beatPositions) ==
    IF i > Len(beats) THEN [tokens |-> tokens, beatPositions |-> beatPositions]
    ELSE LET beatTokens == Words(beats[i])
             toks == tokens \o beatTokens
             currentPos == Len(toks)
         IN NotationFold(beats, i + 1, toks,
                IF i < Len(beats) /\ currentPos > 0
                THEN Append(beatPositions, currentPos)
                ELSE beatPositions)

\* (mutant) a variant that keeps the closing `||` in the line it splits
parseNotationLine_KeepClosing(line) ==
    NotationFold(Split(Trim(line), BAR), 1, <<>>, <<>>)

parseNotationLine(line) ==
    LET cleanLine == IF EndsWith(line, <<BAR, BAR>>)
                     THEN Trim(SubSeq(line, 1, Len(line) - 2))
                     ELSE Trim(line)
    IN NotationFold(Split(cleanLine, BAR), 1, <<>>, <<>>)

-----------------------------------------------------------------------------
(* VnaParser (parser.ts): the cursor helpers.  currentLine is 0-based.     *)

\* currentLineTrimmed()
currentLineTrimmed(ls, cur) == IF cur < Len(ls) THEN Trim(ls[cur + 1]) ELSE <<>>

\* currentLineStartsWith(prefix)
currentLineStartsWith(ls, cur, prefix) == StartsWith(currentLineTrimmed(ls, cur), prefix)

DELIM == <<"-", "-", "-">>
K_title == <<"t", "i", "t", "l", "e">>
K_raga == <<"r", "a", "g", "a">>
K_tala == <<"t", "a", "l", "a">>
K_tempo == <<"t", "e", "m", "p", "o">>
K_gati == <<"g", "a", "t", "i">>
AT_GATI == <<"@", "g", "a", "t", "i", ":">>
PHRASES_EQ == <<"p", "h", "r", "a", "s", "e", "s", " ", "=", " ">>

NoError == [kind |-> "none", line |-> 0]
Error(kind, line) == [kind |-> kind, line |-> line]

\* the length of the longest prefix of s made of \w characters
RECURSIVE WordPrefixLen(_)
WordPrefixLen(s) ==
    IF s # <<>> /\ Head(s) \in WordChars THEN 1 + WordPrefixLen(Tail(s)) ELSE 0

\* line.match(/^(\w+):\s*"?([^"]*)"?$/): the key, the colon, white space, an
\* optional opening quote, a value without quotes, an optional closing quote.
MetaMatch(line) ==
    LET kl == WordPrefixLen(line)
        hasKey == kl >= 1 /\ Len(line) > kl /\ line[kl + 1] = ":"
        r1 == TrimLeft(Substring(line, kl + 1))
        r2 == IF r1 # <<>> /\ Head(r1) = Q THEN Tail(r1) ELSE r1
        r3 == IF r2 # <<>> /\ r2[Len(r2)] = Q THEN SubSeq(r2, 1, Len(r2) - 1) ELSE r2
    IN IF hasKey /\ ~Includes(r3, Q)
       THEN [matched |-> TRUE, key |-> SubSeq(line, 1, kl), value |-> r3]
       ELSE [matched |-> FALSE, key |-> <<>>, value |-> <<>>]

EmptyMetadata ==
    [title |-> Undef, raga |-> Undef, tala |-> Undef, tempo |-> Undef, gati |-> Undef]

\* metadata[key] = value of parseMetadata; keys other than the five the
\* parser and the validator read are stored opaquely and are left out here.
MetaAssign(metadata, line) ==
    LET m == MetaMatch(line)
    IN IF ~m.matched THEN metadata
       ELSE IF m.key = K_tempo THEN [metadata EXCEPT !.tempo = parseInt(m.value)]
       ELSE IF m.key = K_gati THEN [metadata EXCEPT !.gati = parseInt(m.value)]
       ELSE IF m.key = K_title THEN [metadata EXCEPT !.title = Str(m.value)]
       ELSE IF m.key = K_raga THEN [metadata EXCEPT !.raga = Str(m.value)]
       ELSE IF m.key = K_tala THEN [metadata EXCEPT !.tala = Str(m.value)]
       ELSE metadata

RECURSIVE MetaFold(_, _, _, _)
MetaFold(ls, from, to, metadata) ==
    IF from > to THEN metadata
    ELSE MetaFold(ls, from + 1, to, MetaAssign(metadata, ls[from]))

\* the 0-based index of the first line at or after cur whose trim() is '---',
\* Len(ls) when there is none
RECURSIVE FindClosing(_, _)
FindClosing(ls, cur) ==
    IF cur >= Len(ls) THEN Len(ls)
    ELSE IF Trim(ls[cur + 1]) = DELIM THEN cur
    ELSE FindClosing(ls, cur + 1)

RequiredPresent(metadata) ==
    Truthy(metadata.title) /\ Truthy(metadata.raga) /\ Truthy(metadata.tala)

\* parseMetadata(), started with currentLine = 0
MetadataResult(metadata, cur) ==
    IF ~RequiredPresent(metadata)
    THEN [ok |-> FALSE, metadata |-> EmptyMetadata, cur |-> cur,
          err |-> Error("Missing required metadata fields", 0)]
    ELSE [ok |-> TRUE, metadata |-> metadata, cur |-> cur, err |-> NoError]

\* parseMetadata() once the closing `---` is found at the 0-based index close,
\* the YAML lines starting at the 0-based index first
MetadataFrom(ls, first, close) ==
    MetadataResult(MetaFold(ls, first + 1, close, EmptyMetadata),
                   IF close < Len(ls) THEN close + 1 ELSE Len(ls))

MetadataUpTo(ls, close) == MetadataFrom(ls, 1, close)

\* parseMetadata(), started with currentLine = cur
parseMetadataAt(ls, cur) ==
    IF ~currentLineStartsWith(ls, cur, DELIM)
    THEN [ok |-> FALSE, metadata |-> EmptyMetadata, cur |-> cur,
          err |-> Error("Missing YAML frontmatter", 0)]
    ELSE MetadataFrom(ls, cur + 1, FindClosing(ls, cur + 1))

parseMetadata(ls) == parseMetadataAt(ls, 0)

IsHeader(line) == StartsWith(line, <<"[">>) /\ EndsWith(line, <<"]">>)

\* parsePhrase(): the phrase returned, or the Error thrown once both lines are read
PhraseResult(phraseStartLine, lineGati, sw, sa, phraseAnalysis, c3, c4) ==
    LET phrase == [swaras |-> sw.tokens, sahitya |-> sa.tokens,
                   phrase_analysis |-> phraseAnalysis,
                   line_number |-> phraseStartLine + 1,
                   beat_positions |-> sw.beatPositions,
                   gati |-> lineGati]
    IN IF sw.beatPositions # sa.beatPositions
       THEN [ok |-> FALSE, phrase |-> phrase, cur |-> c3,
             err |-> Error("Beat markers misaligned", phraseStartLine + 1)]
       ELSE [ok |-> TRUE, phrase |-> phrase, cur |-> c4, err |-> NoError]

\* parsePhrase() from the swara line, at cursor c1, on
PhraseLines(ls, phraseStartLine, lineGati, c1, hasAnalysis) ==
    PhraseResult(phraseStartLine, lineGati,
                 parseNotationLine(currentLineTrimmed(ls, c1)),
                 parseNotationLine(currentLineTrimmed(ls, c1 + 1)),
                 IF hasAnalysis THEN Str(Substring(currentLineTrimmed(ls, c1 + 2), 10))
                 ELSE Undef,
                 c1 + 2,
                 IF hasAnalysis THEN c1 + 3 ELSE c1 + 2)

\* parsePhrase() after the test for a line-level gati
PhraseFrom(ls, cur, hasGati) ==
    PhraseLines(ls, cur,
                IF hasGati THEN parseInt(Trim(Substring(currentLineTrimmed(ls, cur), 6)))
                ELSE Undef,
                IF hasGati THEN cur + 1 ELSE cur,
                currentLineStartsWith(ls, (IF hasGati THEN cur + 1 ELSE cur) + 2,
                                      PHRASES_EQ))

\* parsePhrase(), started at cursor cur
parsePhrase(ls, cur) == PhraseFrom(ls, cur, currentLineStartsWith(ls, cur, AT_GATI))

SectionLoopResult(ok, phrases, sectionGati, cur, err) ==
    [ok |-> ok, phrases |-> phrases, gati |-> sectionGati, cur |-> cur, err |-> err]

\* the while loop of parseSection(); SectionLine is one turn of it on the
\* trimmed current line, SectionPhrase the turn that has called parsePhrase()
RECURSIVE parseSectionLoop(_, _, _, _)
RECURSIVE SectionLine(_, _, _, _, _)
RECURSIVE SectionPhrase(_, _, _, _)
SectionPhrase(ls, phrases, sectionGati, p) ==
    IF p.ok THEN parseSectionLoop(ls, p.cur, Append(phrases, p.phrase), sectionGati)
    ELSE SectionLoopResult(FALSE, phrases, sectionGati, p.cur, p.err)

SectionLine(ls, cur, phrases, sectionGati, line) ==
    IF line = <<>> THEN parseSectionLoop(ls, cur + 1, phrases, sectionGati)
    ELSE IF StartsWith(line, <<"#">>)
         THEN parseSectionLoop(ls, cur + 1, phrases, sectionGati)
    ELSE IF StartsWith(line, AT_GATI)
         THEN parseSectionLoop(ls, cur + 1, phrases, parseInt(Trim(Substring(line, 6))))
    ELSE IF IsHeader(line)
         THEN SectionLoopResult(TRUE, phrases, sectionGati, cur, NoError)
    ELSE IF Includes(line, BAR)
         THEN SectionPhrase(ls, phrases, sectionGati, parsePhrase(ls, cur))
    ELSE SectionLoopResult(FALSE, phrases, sectionGati, cur,
                           Error("Unexpected content in section", cur + 1))

parseSectionLoop(ls, cur, phrases, sectionGati) ==
    IF cur >= Len(ls) THEN SectionLoopResult(TRUE, phrases, sectionGati, cur, NoError)
    ELSE SectionLine(ls, cur, phrases, sectionGati, currentLineTrimmed(ls, cur))

\* parseSection(): the Section built from the header line and what the loop left
SectionResult(line, cur, r) ==
    [ok |-> r.ok, cur |-> r.cur, err |-> r.err,
     section |-> [name |-> SubSeq(line, 2, Len(line) - 1), phrases |-> r.phrases,
                  line_number |-> cur + 1, gati |-> r.gati]]

\* parseSection(), started on a header line
parseSection(ls, cur) ==
    SectionResult(currentLineTrimmed(ls, cur), cur,
                  parseSectionLoop(ls, cur + 1, <<>>, Undef))

SectionsResult(ok, sections, cur, err) ==
    [ok |-> ok, sections |-> sections, cur |-> cur, err |-> err]

\* parseSections(); SectionsLine is one turn of its loop on the trimmed current
\* line, SectionsPush the turn that has called parseSection()
RECURSIVE parseSections(_, _, _)
RECURSIVE SectionsLine(_, _, _, _)
RECURSIVE SectionsPush(_, _, _)
SectionsPush(ls, sections, s) ==
    IF s.ok THEN parseSections(ls, s.cur, Append(sections, s.section))
    ELSE SectionsResult(FALSE, sections, s.cur, s.err)

SectionsLine(ls, cur, sections, line) ==
    IF IsHeader(line) THEN SectionsPush(ls, sections, parseSection(ls, cur))
    ELSE IF line # <<>> /\ ~StartsWith(line, <<"#">>)
         THEN SectionsResult(FALSE, sections, cur, Error("Unexpected content", cur + 1))
    ELSE parseSections(ls, cur + 1, sections)

parseSections(ls, cur, sections) ==
    IF cur >= Len(ls) THEN SectionsResult(TRUE, sections, cur, NoError)
    ELSE SectionsLine(ls, cur, sections, currentLineTrimmed(ls, cur))

NoDocument == [metadata |-> EmptyMetadata, sections |-> <<>>]

\* parse(content): the Document, or the Error thrown, and the cursor left,
\* given what parseMetadata() and parseSections() returned
ParseResult(m, s) ==
    IF ~m.ok THEN [ok |-> FALSE, doc |-> NoDocument, cur |-> m.cur, err |-> m.err]
    ELSE IF ~s.ok THEN [ok |-> FALSE, doc |-> NoDocument, cur |-> s.cur, err |-> s.err]
    ELSE [ok |-> TRUE, doc |-> [metadata |-> m.metadata, sections |-> s.sections],
          cur |-> s.cur, err |-> NoError]

ParseSectionsAfter(text, m) == ParseResult(m, parseSections(text, m.cur, <<>>))

\* parse(content), with text = content.split('\n')
\* `this.currentLine = 0` at the head of parse(), whatever the cursor was
resetCurrentLine_Keep(cur) == cur

resetCurrentLine(cur) == 0

\* parse(content) on an instance whose currentLine the earlier calls left at cur
parseOn(text, cur) == ParseSectionsAfter(text, parseMetadataAt(text, resetCurrentLine(cur)))

\* parse(content) on a new VnaParser, whose constructor sets currentLine = 0
parse(text) == ParseSectionsAfter(text, parseMetadata(text))

\* One ValidationIssue.  The message is kept as its kind and the numbers it
\* prints (info).
Issue(severity, kind, line, info) ==
    [severity |-> severity, kind |-> kind, line |-> line, info |-> info]

UsualGati == {3, 4, 5, 7, 9}

MinTempo == 20
MaxTempo == 300

\* validate(): the metadata checks
MetadataIssues(metadata) ==
    (IF Truthy(metadata.tempo)
        /\ (metadata.tempo.n < MinTempo \/ metadata.tempo.n > MaxTempo)
     THEN <<Issue("warning", "Unusual tempo", 1, <<metadata.tempo.n>>)>>
     ELSE <<>>)
    \o
    (IF Truthy(metadata.gati) /\ metadata.gati.n \notin UsualGati
     THEN <<Issue("warning", "Unusual gati value", 1, <<metadata.gati.n>>)>>
     ELSE <<>>)

\* validate(): the token length loop of one phrase, from index i (1-based)
RECURSIVE TokenLengthIssues(_, _)
TokenLengthIssues(phrase, i) ==
    IF i > Len(phrase.swaras) THEN <<>>
    ELSE LET swaraLen == Len(phrase.swaras[i])
             sahityaLen == Len(phrase.sahitya[i])
         IN (IF swaraLen # sahityaLen
             THEN <<Issue("error", "Token length mismatch", phrase.line_number + 1,
                          <<i, swaraLen, sahityaLen>>)>>
             ELSE <<>>)
            \o TokenLengthIssues(phrase, i + 1)

\* (mutant) a validator without the token count check
PhraseIssues_NoCount(phrase) ==
    IF Len(phrase.swaras) # Len(phrase.sahitya) THEN <<>>
    ELSE TokenLengthIssues(phrase, 1)

\* validate(): the body of the loop over the phrases
PhraseIssues(phrase) ==
    IF Len(phrase.swaras) # Len(phrase.sahitya)
    THEN <<Issue("error", "Token count mismatch", phrase.line_number,
                 <<Len(phrase.swaras), Len(phrase.sahitya)>>)>>
    ELSE TokenLengthIssues(phrase, 1)

RECURSIVE PhrasesIssues(_, _)
PhrasesIssues(phrases, i) ==
    IF i > Len(phrases) THEN <<>>
    ELSE PhraseIssues(phrases[i]) \o PhrasesIssues(phrases, i + 1)

RECURSIVE SectionsIssues(_, _)
SectionsIssues(sections, i) ==
    IF i > Len(sections) THEN <<>>
    ELSE PhrasesIssues(sections[i].phrases, 1) \o SectionsIssues(sections, i + 1)

\* validate(content): the issues, and the cursor the call leaves
ValidateResult(p) ==
    IF p.ok
    THEN [issues |-> MetadataIssues(p.doc.metadata) \o SectionsIssues(p.doc.sections, 1),
          cur |-> p.cur]
    ELSE [issues |-> <<Issue("error", p.err.kind, p.cur + 1, <<p.err.line>>)>>,
          cur |-> p.cur]

\* validate(content) on an instance whose currentLine the earlier calls left at cur
validateOn(text, cur) == ValidateResult(parseOn(text, cur))

\* validate(content) on a new VnaParser
validate(text) == ValidateResult(parse(text))

-----------------------------------------------------------------------------
(* VNAParser (lib/vna-parser.ts): the static parser whose sections carry   *)
(* the annotations that StaffCanvas reads.                                 *)

\* line.match(/^(\w+):\s*"?(.+?)"?$/): the value group is lazy but takes at
\* least one character, so the white space or the quote before it is given
\* back to it when nothing else is left.
LibMetaMatch(line) ==
    LET kl == WordPrefixLen(line)
        hasKey == kl >= 1 /\ Len(line) > kl /\ line[kl + 1] = ":"
        rest == Substring(line, kl + 1)
        t == TrimLeft(rest)
        r == IF t = <<>> THEN SubSeq(rest, Len(rest), Len(rest))
             ELSE IF Head(t) = Q /\ Len(t) >= 2 THEN Tail(t)
             ELSE t
        value == IF Len(r) >= 2 /\ r[Len(r)] = Q THEN SubSeq(r, 1, Len(r) - 1) ELSE r
    IN IF hasKey /\ rest # <<>>
       THEN [matched |-> TRUE, key |-> SubSeq(line, 1, kl), value |-> value]
       ELSE [matched |-> FALSE, key |-> <<>>, value |-> <<>>]

\* metadata[key] = key === 'tempo' ? parseInt(value) : value
LibMetaAssign(metadata, line) ==
    LET m == LibMetaMatch(line)
    IN IF ~m.matched THEN metadata
       ELSE IF m.key = K_tempo THEN [metadata EXCEPT !.tempo = parseInt(m.value)]
       ELSE IF m.key = K_gati THEN [metadata EXCEPT !.gati = Str(m.value)]
       ELSE IF m.key = K_title THEN [metadata EXCEPT !.title = Str(m.value)]
       ELSE IF m.key = K_raga THEN [metadata EXCEPT !.raga = Str(m.value)]
       ELSE IF m.key = K_tala THEN [metadata EXCEPT !.tala = Str(m.value)]
       ELSE metadata

RECURSIVE LibMetaFold(_, _, _, _)
LibMetaFold(ls, from, to, metadata) ==
    IF from > to THEN metadata
    ELSE LibMetaFold(ls, from + 1, to, LibMetaAssign(metadata, ls[from]))

\* lines.findIndex((line, idx) => idx > after && line.trim() === '---'), 0-based,
\* -1 when there is none
RECURSIVE findDelimiter(_, _)
findDelimiter(ls, idx) ==
    IF idx >= Len(ls) THEN 0 - 1
    ELSE IF Trim(ls[idx + 1]) = DELIM THEN idx
    ELSE findDelimiter(ls, idx + 1)

\* VNAParser.parseMetadata(lines)
VNAParser_parseMetadata(ls) ==
    LET startIdx == findDelimiter(ls, 0)
        endIdx == findDelimiter(ls, startIdx + 1)
        metadata == LibMetaFold(ls, startIdx + 2, endIdx, EmptyMetadata)
    IN IF startIdx = 0 - 1 \/ endIdx = 0 - 1
       THEN [ok |-> FALSE, metadata |-> EmptyMetadata,
             err |-> Error("Invalid VNA file: missing metadata section", 0)]
       ELSE IF ~RequiredPresent(metadata)
       THEN [ok |-> FALSE, metadata |-> EmptyMetadata,
             err |-> Error("Invalid VNA file: missing required metadata fields", 0)]
       ELSE [ok |-> TRUE, metadata |-> metadata, err |-> NoError]

NoAnnotations == [key \in {} |-> Undef]

\* annotations[key] = value
AnnotationSet(annotations, key, value) ==
    [k \in DOMAIN annotations \cup {key} |-> IF k = key THEN value ELSE annotations[k]]

\* annotations?.[key]
AnnotationGet(annotations, key) ==
    IF key \in DOMAIN annotations THEN annotations[key] ELSE Undef

\* a phrase under assembly; the parser gives a phrase no gati and no tala
EmptyPhrase ==
    [swaras |-> Undef, sahitya |-> Undef, phrases |-> Undef, gati |-> Undef,
     tala |-> Undef]

NoSection == [name |-> <<>>, phrases |-> <<>>, comments |-> <<>>,
              annotations |-> NoAnnotations]

PHRASES_EQ_LIB == <<"p", "h", "r", "a", "s", "e", "s", " ", "=">>

\* trimmed.match(/^\[(.+)\]$/)
LibIsHeader(trimmed) ==
    Len(trimmed) >= 3 /\ Head(trimmed) = "[" /\ trimmed[Len(trimmed)] = "]"

DelimiterCount(ls) == Cardinality({k \in 1..Len(ls) : Trim(ls[k]) = DELIM})

\* one turn of the lines.forEach of parseSections on the state
\* st = [sections, hasSection, currentSection, currentPhrase, inMetadata]
LibLine(ls, st, line) ==
    LET trimmed == Trim(line)
        cs == st.currentSection
        cp == st.currentPhrase
    IN IF trimmed = DELIM
       THEN IF st.inMetadata /\ DelimiterCount(ls) = 2
            THEN [st EXCEPT !.inMetadata = ~st.inMetadata]
            ELSE st
       ELSE IF st.inMetadata THEN st
       ELSE IF StartsWith(trimmed, <<"#">>)
       THEN IF st.hasSection
            THEN [st EXCEPT !.currentSection.comments =
                                Append(cs.comments, Trim(Substring(trimmed, 1)))]
            ELSE st
       ELSE IF StartsWith(trimmed, <<"@">>)
       THEN IF st.hasSection
            THEN LET parts == Split(Substring(trimmed, 1), ":")
                     key == Trim(parts[1])
                     value == IF Len(parts) >= 2 THEN Str(Trim(parts[2])) ELSE Undef
                 IN [st EXCEPT !.currentSection.annotations =
                                   AnnotationSet(cs.annotations, key, value)]
            ELSE st
       ELSE IF LibIsHeader(trimmed)
       THEN [st EXCEPT !.sections = IF st.hasSection THEN Append(st.sections, cs)
                                    ELSE st.sections,
                       !.hasSection = TRUE,
                       !.currentSection =
                           [NoSection EXCEPT !.name = SubSeq(trimmed, 2, Len(trimmed) - 1)],
                       !.currentPhrase = EmptyPhrase]
       ELSE IF ~st.hasSection THEN st
       ELSE IF StartsWith(trimmed, PHRASES_EQ_LIB)
       THEN LET ph == [cp EXCEPT !.phrases = Str(Trim(Substring(trimmed, Len(PHRASES_EQ_LIB))))]
            IN IF Truthy(ph.swaras) /\ Truthy(ph.sahitya)
               THEN [st EXCEPT !.currentSection.phrases = Append(cs.phrases, ph),
                               !.currentPhrase = EmptyPhrase]
               ELSE [st EXCEPT !.currentPhrase = ph]
       ELSE IF trimmed # <<>> /\ ~Truthy(cp.swaras)
       THEN [st EXCEPT !.currentPhrase.swaras = Str(trimmed)]
       ELSE IF trimmed # <<>> /\ Truthy(cp.swaras) /\ ~Truthy(cp.sahitya)
       THEN LET ph == [cp EXCEPT !.sahitya = Str(trimmed)]
            IN IF ~Truthy(ph.phrases)
               THEN [st EXCEPT !.currentSection.phrases = Append(cs.phrases, ph),
                               !.currentPhrase = EmptyPhrase]
               ELSE [st EXCEPT !.currentPhrase = ph]
       ELSE st

RECURSIVE LibLines(_, _, _)
LibLines(ls, i, st) ==
    IF i > Len(ls) THEN st ELSE LibLines(ls, i + 1, LibLine(ls, st, ls[i]))

\* VNAParser.parseSections(lines)
VNAParser_parseSections(ls) ==
    LET st == LibLines(ls, 1, [sections |-> <<>>, hasSection |-> FALSE,
                               currentSection |-> NoSection,
                               currentPhrase |-> EmptyPhrase, inMetadata |-> TRUE])
    IN IF st.hasSection THEN Append(st.sections, st.currentSection) ELSE st.sections

\* VNAParser.parse(content)
VNAParser_parse(text) ==
    LET m == VNAParser_parseMetadata(text)
    IN IF ~m.ok THEN [ok |-> FALSE, doc |-> NoDocument, err |-> m.err]
       ELSE [ok |-> TRUE, err |-> NoError,
             doc |-> [metadata |-> m.metadata, sections |-> VNAParser_parseSections(text)]]

-----------------------------------------------------------------------------
(* StaffCanvas (types/gamaka.ts): the effective gati and tala of a phrase. *)

DefaultGati == 4
DefaultTala == <<"+", "2", "3", "4", "+", "0", "+", "0">>

\* the prop documentGati = 4 of StaffCanvas, given vnaDocument.metadata.gati
documentGatiProp(metadata) == IF metadata.gati = Undef THEN Num(DefaultGati) ELSE metadata.gati

\* the prop documentTala = "+234+0+0", given vnaDocument.metadata.tala
documentTalaProp(metadata) == IF metadata.tala = Undef THEN Str(DefaultTala) ELSE metadata.tala

\* (mutant) the document's gati before the section's
effectiveGati_DocumentFirst(phrase, section, documentGati) ==
    IF Truthy(phrase.gati) THEN phrase.gati
    ELSE IF Truthy(documentGati) THEN documentGati
    ELSE parseInt(AnnotationGet(section.annotations, K_gati).s)

\* phrase.gati || (section.annotations?.gati ? parseInt(section.annotations.gati)
\*                                           : documentGati)
effectiveGati(phrase, section, documentGati) ==
    IF Truthy(phrase.gati) THEN phrase.gati
    ELSE IF Truthy(AnnotationGet(section.annotations, K_gati))
    THEN parseInt(AnnotationGet(section.annotations, K_gati).s)
    ELSE documentGati

\* phrase.tala || section.annotations?.tala || documentTala
effectiveTala(phrase, section, documentTala) ==
    IF Truthy(phrase.tala) THEN phrase.tala
    ELSE IF Truthy(AnnotationGet(section.annotations, K_tala))
    THEN AnnotationGet(section.annotations, K_tala)
    ELSE documentTala

-----------------------------------------------------------------------------
(* VNAParser.parseSwaraLine: the tokenizer of lib/vna-parser-wasm.ts, that *)
(* takes one token, and the tokenizer of lib/vna-parser.ts, that takes a   *)
(* line.  A ParsedSwara keeps the fields the two set.                      *)

SwaraLetters == {"S", "R", "G", "M", "P", "D", "N"}

ParsedSwara(swara, variant, octave, isRest, isSustain) ==
    [swara |-> swara, variant |-> variant, octave |-> octave,
     isRest |-> isRest, isSustain |-> isSustain]

\* the number of times c stands in s from index i (1-based) on, without a gap
RECURSIVE RunLength(_, _, _)
RunLength(s, i, c) ==
    IF i > Len(s) \/ s[i] # c THEN 0 ELSE 1 + RunLength(s, i + 1, c)

\* octaveType for the count of markers read: '.', '..' or undefined
OctaveType(count, mark) ==
    IF count = 1 THEN Str(<<mark>>)
    ELSE IF count = 2 THEN Str(<<mark, mark>>)
    ELSE Undef

RECURSIVE WasmSwaraLoop(_, _, _)

\* the note once the dots are counted: the apostrophes are read only when the
\* dots gave no octaveType, and octaveCount goes on from the count of dots
WasmOctave(token, i, swaras, variant, dots, apostrophes) ==
    WasmSwaraLoop(token, i + 1 + dots + apostrophes,
        Append(swaras,
               ParsedSwara(token[i - (IF variant = Undef THEN 0 ELSE 1)], variant,
                           IF OctaveType(dots, ".") # Undef THEN OctaveType(dots, ".")
                           ELSE OctaveType(dots + apostrophes, "'"),
                           FALSE, FALSE)))

\* the note whose letter and variant end at index i (1-based)
WasmDots(token, i, swaras, variant, dots) ==
    WasmOctave(token, i, swaras, variant, dots,
               IF OctaveType(dots, ".") = Undef
               THEN RunLength(token, i + 1 + dots, "'") ELSE 0)

WasmNote(token, i, swaras, hasVariant) ==
    IF hasVariant
    THEN WasmDots(token, i + 1, swaras, Str(<<token[i + 1]>>),
                  RunLength(token, i + 2, "."))
    ELSE WasmDots(token, i, swaras, Undef, RunLength(token, i + 1, "."))

\* (mutant) a loop that reads a `,` inside a token as an unknown character
WasmSwaraLoop_SkipSustain(token, i, swaras) ==
    IF i > Len(token) THEN swaras
    ELSE IF token[i] = "," THEN WasmSwaraLoop(token, i + 1, swaras)
    ELSE IF token[i] = "-"
    THEN WasmSwaraLoop(token, i + 1,
                       Append(swaras, ParsedSwara("-", Undef, Undef, TRUE, FALSE)))
    ELSE IF token[i] \in SwaraLetters
    THEN WasmNote(token, i, swaras, i + 1 <= Len(token) /\ token[i + 1] \in {"1", "2", "3"})
    ELSE WasmSwaraLoop(token, i + 1, swaras)

\* the while loop of parseSwaraLine (vna-parser-wasm.ts), i 1-based
WasmSwaraLoop(token, i, swaras) ==
    IF i > Len(token) THEN swaras
    ELSE IF token[i] = ","
    THEN WasmSwaraLoop(token, i + 1,
                       Append(swaras, ParsedSwara("S", Undef, Undef, FALSE, TRUE)))
    ELSE IF token[i] = "-"
    THEN WasmSwaraLoop(token, i + 1,
                       Append(swaras, ParsedSwara("-", Undef, Undef, TRUE, FALSE)))
    ELSE IF token[i] \in SwaraLetters
    THEN WasmNote(token, i, swaras, i + 1 <= Len(token) /\ token[i + 1] \in {"1", "2", "3"})
    ELSE WasmSwaraLoop(token, i + 1, swaras)

\* VNAParser.parseSwaraLine(token) of vna-parser-wasm.ts
parseSwaraLine(token) ==
    IF token = <<"-">> THEN <<ParsedSwara("-", Undef, Undef, TRUE, FALSE)>>
    ELSE IF token = <<",">> THEN <<ParsedSwara("S", Undef, Undef, FALSE, TRUE)>>
    ELSE WasmSwaraLoop(token, 1, <<>>)

LibRest == ParsedSwara("S", Undef, Str(<<>>), TRUE, FALSE)

LibSustain == ParsedSwara("S", Undef, Str(<<>>), FALSE, TRUE)

\* the length of the group (\.{1,2}|'{1,2})? of SWARA_REGEX at index i
OctaveGroupLen(s, i) ==
    IF RunLength(s, i, ".") > 0 THEN (IF RunLength(s, i, ".") >= 2 THEN 2 ELSE 1)
    ELSE IF RunLength(s, i, "'") >= 2 THEN 2
    ELSE RunLength(s, i, "'")

\* the match of SWARA_REGEX = /([SRGMPDN])(\d)?(\.{1,2}|'{1,2})?/ at the
\* letter s[i]: the note pushed for it and the index after the match
SwaraMatchFrom(s, i, hasDigit) ==
    [swara |-> ParsedSwara(s[i],
                   IF hasDigit THEN Num(DigitVal[s[i + 1]]) ELSE Undef,
                   Str(SubSeq(s, i + 1 + (IF hasDigit THEN 1 ELSE 0),
                              i + (IF hasDigit THEN 1 ELSE 0)
                                + OctaveGroupLen(s, i + 1 + (IF hasDigit THEN 1 ELSE 0)))),
                   FALSE, FALSE),
     end |-> i + 1 + (IF hasDigit THEN 1 ELSE 0)
               + OctaveGroupLen(s, i + 1 + (IF hasDigit THEN 1 ELSE 0))]

SwaraMatch(s, i) == SwaraMatchFrom(s, i, i + 1 <= Len(s) /\ s[i + 1] \in Digits)

\* token.matchAll(SWARA_REGEX): one note for each match, from index i on
RECURSIVE SwaraMatchAll(_, _, _)
SwaraMatchNext(s, swaras, m) == SwaraMatchAll(s, m.end, Append(swaras, m.swara))

SwaraMatchAll(s, i, swaras) ==
    IF i > Len(s) THEN swaras
    ELSE IF s[i] \in SwaraLetters THEN SwaraMatchNext(s, swaras, SwaraMatch(s, i))
    ELSE SwaraMatchAll(s, i + 1, swaras)

\* the end of `notation`: the letter at i, a digit, and a run of `.` and `'`
RECURSIVE MarksEnd(_, _)
MarksEnd(chars, i) ==
    IF i <= Len(chars) /\ chars[i] \in {".", "'"} THEN MarksEnd(chars, i + 1) ELSE i

NotationEnd(chars, i) ==
    MarksEnd(chars, IF i + 1 <= Len(chars) /\ chars[i + 1] \in Digits THEN i + 2 ELSE i + 1)

\* the while loop over the characters of a token that has a `-` or a `,`:
\* of the matches of SWARA_REGEX in `notation` the first one is pushed
RECURSIVE LibCharLoop(_, _, _)
LibCharLoop(chars, i, swaras) ==
    IF i > Len(chars) THEN swaras
    ELSE IF chars[i] = "-" THEN LibCharLoop(chars, i + 1, Append(swaras, LibRest))
    ELSE IF chars[i] = "," THEN LibCharLoop(chars, i + 1, Append(swaras, LibSustain))
    ELSE IF chars[i] \in SwaraLetters
    THEN LibCharLoop(chars, NotationEnd(chars, i),
             Append(swaras,
                    SwaraMatch(SubSeq(chars, i, NotationEnd(chars, i) - 1), 1).swara))
    ELSE LibCharLoop(chars, i + 1, swaras)

\* the body of tokens.forEach in parseSwaraLine (vna-parser.ts)
LibSwaraToken(token) ==
    IF token = <<"-">> THEN <<LibRest>>
    ELSE IF token = <<",">> THEN <<LibSustain>>
    ELSE IF token = <<BAR>> \/ token = <<BAR, BAR>> THEN <<>>
    ELSE IF Includes(token, "-") \/ Includes(token, ",")
    THEN LibCharLoop(token, 1, <<>>)
    ELSE SwaraMatchAll(token, 1, <<>>)

RECURSIVE LibSwaraTokens(_, _)
LibSwaraTokens(tokens, i) ==
    IF i > Len(tokens) THEN <<>>
    ELSE LibSwaraToken(tokens[i]) \o LibSwaraTokens(tokens, i + 1)

\* VNAParser.parseSwaraLine(swaraLine) of vna-parser.ts; the empty strings
\* that split(/\s+/) gives at the ends of a line yield no ParsedSwara
VNAParser_parseSwaraLine(swaraLine) == LibSwaraTokens(Words(swaraLine), 1)

-----------------------------------------------------------------------------
(* The input texts.                                                        *)

MaxTokens == 2      \* tokens on one line of the phrase family
MaxPhrases == 3     \* phrases of one document of the fault and gati families

DigitChar == <<"0", "1", "2", "3", "4", "5", "6", "7", "8", "9">>

\* the decimal text of a natural number
RECURSIVE ToDigits(_)
ToDigits(n) ==
    IF n < 10 THEN <<DigitChar[n + 1]>>
    ELSE Append(ToDigits(n \div 10), DigitChar[(n % 10) + 1])

SeqsUpTo(S, n) == UNION {[1..k -> S] : k \in 0..n}

RECURSIVE Flatten(_)
Flatten(ss) == IF ss = <<>> THEN <<>> ELSE Head(ss) \o Flatten(Tail(ss))

\* The ways a required field is written: 0 is the field left out, then
\* `key:`, `key: `, `key: ""`, `key: "m"` and `key: m`.
FieldSuffix ==
    << <<":">>, <<":", " ">>, <<":", " ", Q, Q>>, <<":", " ", Q, "m", Q>>,
       <<":", " ", "m">> >>
FieldWays == 0..Len(FieldSuffix)
GoodWay == Len(FieldSuffix) - 1

FieldLine(key, way) == IF way = 0 THEN <<>> ELSE <<key \o FieldSuffix[way]>>

Frontmatter(t, r, a, extra) ==
    <<DELIM>> \o FieldLine(K_title, t) \o FieldLine(K_raga, r) \o FieldLine(K_tala, a)
    \o extra \o <<DELIM>>

GoodFrontmatter(extra) == Frontmatter(GoodWay, GoodWay, GoodWay, extra)

NumberLine(key, text) == key \o <<":", " ">> \o text

TempoTexts ==
    {ToDigits(n) : n \in {0, 1, 19, 20, 21, 60, 299, 300, 301, 500}}
    \cup {<<"-", "5">>, <<"x">>}

GatiTexts == {ToDigits(n) : n \in {0, 3, 4, 5, 6, 7, 9, 12}}

HDR_a == <<"[", "a", "]">>
HDR_b == <<"[", "b", "]">>

\* a note or lyric line: the tokens, a `|` after the first token when
\* beat = 1, and the closing `||`
RECURSIVE JoinTokens(_, _, _)
JoinTokens(tokens, i, beat) ==
    IF i > Len(tokens) THEN <<BAR, BAR>>
    ELSE tokens[i] \o <<" ">> \o (IF i = beat THEN <<BAR, " ">> ELSE <<>>)
         \o JoinTokens(tokens, i + 1, beat)

NotationLine(tokens, beat) == JoinTokens(tokens, 1, beat)

GatiLine(n) == AT_GATI \o <<" ">> \o ToDigits(n)

OkPair == <<NotationLine(<<<<"S">>, <<"R">>>>, 0), NotationLine(<<<<"a">>, <<"b">>>>, 0)>>
CountPair == <<NotationLine(<<<<"S">>, <<"R">>>>, 0), NotationLine(<<<<"a">>>>, 0)>>
LengthPair ==
    <<NotationLine(<<<<"S", "R">>, <<"R">>>>, 0), NotationLine(<<<<"a">>, <<"b">>>>, 0)>>
BeatPair == <<NotationLine(<<<<"S">>, <<"R">>>>, 1), NotationLine(<<<<"a">>, <<"b">>>>, 0)>>
TokenGatiPair ==
    <<NotationLine(<<<<"S", ":", "3">>, <<"R">>>>, 0),
      NotationLine(<<<<"a">>, <<"b">>>>, 0)>>

Body0 == <<HDR_a>> \o OkPair

\* frontmatters with each required field written in every way
MetaContents ==
    {Frontmatter(t, r, a, <<>>) \o b :
        t \in FieldWays, r \in FieldWays, a \in FieldWays,
        b \in {Body0, <<K_raga \o FieldSuffix[GoodWay]>> \o Body0}}

\* good frontmatters with a tempo and a gati
NumberContents ==
    {GoodFrontmatter(tl \o gl) \o Body0 :
        tl \in {<<>>} \cup {<<NumberLine(K_tempo, t)>> : t \in TempoTexts},
        gl \in {<<>>} \cup {<<NumberLine(K_gati, g)>> : g \in GatiTexts}}

SwaraTokens == {<<"S">>, <<"S", "R">>, <<"S", "R", ".">>, <<"-">>}
SahityaTokens == {<<"a">>, <<"a", "-">>, <<"a", TICK, "b">>, <<"-">>}

\* one section with one phrase of any tokens, with a `|` after the first token
\* of neither line, of the note line, or of both
BeatChoices == {<<0, 0>>, <<1, 0>>, <<1, 1>>}

PhraseContents ==
    {GoodFrontmatter(<<>>) \o <<HDR_a, NotationLine(sw, b[1]), NotationLine(sa, b[2])>> :
        sw \in SeqsUpTo(SwaraTokens, MaxTokens), sa \in SeqsUpTo(SahityaTokens, MaxTokens),
        b \in BeatChoices}

\* two sections sharing the phrase groups gs: the first j in [a], the rest in [b]
TwoSections(ann1, ann2, gs, j) ==
    <<HDR_a>> \o ann1 \o Flatten(SubSeq(gs, 1, j))
    \o <<HDR_b>> \o ann2 \o Flatten(SubSeq(gs, j + 1, Len(gs)))

\* documents whose phrases are well formed or faulty
FaultContents ==
    UNION {{GoodFrontmatter(<<>>) \o TwoSections(<<>>, <<>>, gs, j) : j \in 0..Len(gs)} :
        gs \in SeqsUpTo({OkPair, CountPair, LengthPair, BeatPair}, MaxPhrases)}

SectionAnnotations == {<<>>, <<GatiLine(3)>>, <<GatiLine(6)>>}

GatiGroups == {OkPair, <<GatiLine(5)>> \o OkPair, TokenGatiPair}

\* documents with gati given at the four levels
GatiContents ==
    UNION {{GoodFrontmatter(gl) \o TwoSections(a1, a2, gs, j) : j \in 0..Len(gs)} :
        gl \in {<<>>, <<NumberLine(K_gati, <<"4">>)>>},
        a1 \in SectionAnnotations, a2 \in SectionAnnotations,
        gs \in SeqsUpTo(GatiGroups, MaxPhrases)}

GoodFields ==
    FieldLine(K_title, GoodWay) \o FieldLine(K_raga, GoodWay) \o FieldLine(K_tala, GoodWay)

\* frontmatters with and without their opening and closing `---`
DelimContents ==
    {(IF open THEN <<DELIM>> ELSE <<>>) \o fields
        \o (IF close THEN <<DELIM>> ELSE <<>>) \o Body0 :
        open \in BOOLEAN, close \in BOOLEAN, fields \in {<<>>, GoodFields}}

\* one line between the frontmatter and the first section header
StrayLineChoices ==
    {<<>>, <<"#", " ", "c">>, <<"x">>, OkPair[1], GatiLine(3), PHRASES_EQ \o <<"x">>}

StrayContents ==
    {GoodFrontmatter(<<>>) \o <<stray>> \o body :
        stray \in StrayLineChoices, body \in {<<>>, Body0}}

\* a note line that is followed by a section header or by the end of the text
DanglingContents ==
    {GoodFrontmatter(<<>>) \o <<HDR_a>> \o before \o <<note>> \o after :
        before \in {<<>>, OkPair},
        note \in {OkPair[1], BeatPair[1], NotationLine(<<<<"S">>>>, 0)},
        after \in {<<>>, <<HDR_b>>, <<HDR_b>> \o OkPair}}

AnalysisLine == PHRASES_EQ \o <<"(", "_", " ", "_", ")">>

\* phrases followed by a `phrases = ...` line
AnalysisContents ==
    {GoodFrontmatter(<<>>) \o <<HDR_a>> \o before \o OkPair \o <<AnalysisLine>> \o after :
        before \in {<<>>, OkPair},
        after \in {<<>>, OkPair, OkPair \o <<AnalysisLine>>, OkPair \o OkPair,
                   <<HDR_b>> \o OkPair}}

Contents ==
    MetaContents \cup NumberContents \cup PhraseContents \cup FaultContents
    \cup GatiContents \cup DelimContents \cup StrayContents \cup DanglingContents
    \cup AnalysisContents

-----------------------------------------------------------------------------
(* The VnaParser instance: one action per public method.                   *)

NoNotation == [tokens |-> <<>>, beatPositions |-> <<>>]

\* the async calls of the wrappers: each is started once
MaxCalls == 2

CallIds == 1..MaxCalls

\* `content.length > 100000`
MaxContentLength == 100000

\* what a call gave its caller: kind "returned" or "thrown"; error the message
\* thrown; ran whether the engine's method returned; empty whether the value
\* returned is the empty list
NoOutcome == [kind |-> "none", error |-> "none", ran |-> FALSE, empty |-> FALSE]

\* a call not yet made: op is the wrapper called, length is content.length,
\* parser the local `const parser` (0 while unset or null), retry whether the
\* call is in the catch block of parseVna, used the engine parsers it invoked,
\* overlapped the calls that were in flight together with it, attempts the
\* number of times it invoked the engine's method, caught the first exception
\* its catch block received, known the number of engine parsers that existed
\* when its catch block reset the module
NoCall ==
    [op |-> "none", pc |-> "idle", length |-> 0, parser |-> 0, retry |-> FALSE,
     outcome |-> NoOutcome, used |-> {}, overlapped |-> {}, attempts |-> 0,
     caught |-> "none", known |-> 0]

\* the module as loaded: no engine parser yet, no call made
WasmIdle ==
    /\ wasmInitialized = FALSE
    /\ parserInstance = 0
    /\ instances = 0
    /\ calls = [c \in CallIds |-> NoCall]
    /\ engineCalls = {}

\* VNAEditor before its first parse: vnaDocument and error are null (<<>>); a
\* document is <<text>>, the document of the text it was parsed from; an error
\* is its message; parses[c] is the content that the call c of parseVna
\* was started with by the effect (<<>> for a call the editor did not make)
NoEditor ==
    [vnaDocument |-> <<>>, error |-> <<>>, parses |-> [c \in CallIds |-> <<>>]]

EditorIdle == editor = NoEditor

\* the message of the error VNAParser.parse of vna-parser-wasm.ts throws:
\* `Failed to parse VNA: ${error.message || 'Unknown error'}`
FailedToParse(message) == <<"Failed to parse VNA: ", message>>

\* the state of VNAEditor once the call c has become k: when parseVna settles,
\* the promise of VNAParser.parse settles with it and runs the callback of the
\* effect, `then` (set the document, clear the error) or `catch` (set the error)
Settled(c, k) ==
    IF k.pc # "done" \/ editor.parses[c] = <<>> THEN editor
    ELSE IF k.outcome.kind = "returned"
    THEN [editor EXCEPT !.vnaDocument = <<editor.parses[c]>>, !.error = <<>>]
    ELSE [editor EXCEPT !.error = FailedToParse(k.outcome.error)]

\* no parse() under way: pc is where parse() is ("idle", "sections" in the
\* loop of parseSections, "section" in the loop of parseSection, "returned",
\* "thrown"), turns the number of turns of the two loops so far, reads[k] the
\* number of times line k was read by currentLineTrimmed() in the two loops
NoScan == [pc |-> "idle", turns |-> 0, reads |-> <<>>]

ScanIdle == scan = NoScan

\* what StaffCanvas computed for the phrase it drew
NoStaff == [section |-> 0, phraseIndex |-> 0, effectiveGati |-> Undef,
            effectiveTala |-> Undef]

NoResult ==
    [returned |-> "none", doc |-> NoDocument, err |-> NoError, issues |-> <<>>,
     notation |-> NoNotation, staff |-> NoStaff, formatted |-> <<>>,
     swaras |-> <<>>]

Init ==
    /\ content \in Contents
    /\ lines = <<>>
    /\ currentLine = 0
    /\ call = "none"
    /\ result = NoResult
    /\ history = <<>>
    /\ WasmIdle
    /\ EditorIdle
    /\ ScanIdle

\* parser.parse(content)
Parse ==
    LET p == parseOn(content, currentLine)
    IN /\ lines' = content
       /\ currentLine' = p.cur
       /\ call' = "parse"
       /\ result' = IF p.ok
                    THEN [NoResult EXCEPT !.returned = "document", !.doc = p.doc]
                    ELSE [NoResult EXCEPT !.returned = "thrown", !.err = p.err]
       /\ UNCHANGED <<content, history, wasmVars, editorVars, scan>>

\* parser.validate(content)
Validate ==
    LET v == validateOn(content, currentLine)
    IN /\ lines' = content
       /\ currentLine' = v.cur
       /\ call' = "validate"
       /\ result' = [NoResult EXCEPT !.returned = "issues", !.issues = v.issues]
       /\ UNCHANGED <<content, history, wasmVars, editorVars, scan>>

Next == Parse \/ Validate

Spec == Init /\ [][Next]_vars

-----------------------------------------------------------------------------
(* parseNotationLine on its own: the lines are words joined by one space.  *)

MaxWords == 5       \* words on a line given to parseNotationLine

NotationWords == {<<"A">>, <<"B">>, <<BAR>>, <<BAR, BAR>>, <<"A", BAR, "B">>}

RECURSIVE JoinWords(_)
JoinWords(ws) ==
    IF ws = <<>> THEN <<>>
    ELSE IF Len(ws) = 1 THEN ws[1]
    ELSE ws[1] \o <<" ">> \o JoinWords(Tail(ws))

NotationInputs == {JoinWords(ws) : ws \in SeqsUpTo(NotationWords, MaxWords)}

InitNotation ==
    /\ content \in {<<l>> : l \in NotationInputs}
    /\ lines = <<>>
    /\ currentLine = 0
    /\ call = "none"
    /\ result = NoResult
    /\ history = <<>>
    /\ WasmIdle
    /\ EditorIdle
    /\ ScanIdle

\* this.parseNotationLine(this.currentLineTrimmed()), as parsePhrase calls it
ParseNotationLine ==
    /\ lines' = content
    /\ currentLine' = 0
    /\ call' = "parseNotationLine"
    /\ result' = [NoResult EXCEPT !.returned = "notation",
                      !.notation = parseNotationLine(currentLineTrimmed(content, 0))]
    /\ UNCHANGED <<content, history, wasmVars, editorVars, scan>>

NextNotation == ParseNotationLine

SpecNotation == InitNotation /\ [][NextNotation]_vars

-----------------------------------------------------------------------------
(* The static VNAParser and the StaffCanvas that draws one of its phrases. *)

LibContents ==
    MetaContents \cup GatiContents \cup DelimContents \cup StrayContents
    \cup DanglingContents \cup AnalysisContents

InitLib ==
    /\ content \in LibContents
    /\ lines = <<>>
    /\ currentLine = 0
    /\ call = "none"
    /\ result = NoResult
    /\ history = <<>>
    /\ WasmIdle
    /\ EditorIdle
    /\ ScanIdle

\* VNAParser.parse(content)
LibParse ==
    LET p == VNAParser_parse(content)
    IN /\ call' = "libparse"
       /\ result' = IF p.ok
                    THEN [NoResult EXCEPT !.returned = "document", !.doc = p.doc]
                    ELSE [NoResult EXCEPT !.returned = "thrown", !.err = p.err]
       /\ UNCHANGED <<content, lines, currentLine, history, wasmVars, editorVars, scan>>

\* the effect of StaffCanvas for the props section, phraseIndex, documentGati
\* and documentTala that the editor passes for one phrase of the document
StaffCanvasEffect ==
    /\ call \in {"libparse", "render"}
    /\ result.returned = "document"
    /\ \E si \in 1..Len(result.doc.sections) :
         \E pi \in 1..Len(result.doc.sections[si].phrases) :
            LET section == result.doc.sections[si]
                phrase == section.phrases[pi]
            IN result' = [result EXCEPT !.staff =
                   [section |-> si, phraseIndex |-> pi,
                    effectiveGati |->
                        effectiveGati(phrase, section, documentGatiProp(result.doc.metadata)),
                    effectiveTala |->
                        effectiveTala(phrase, section, documentTalaProp(result.doc.metadata))]]
    /\ call' = "render"
    /\ UNCHANGED <<content, lines, currentLine, history, wasmVars, editorVars, scan>>

NextLib == LibParse \/ StaffCanvasEffect

SpecLib == InitLib /\ [][NextLib]_vars

-----------------------------------------------------------------------------
(* One VnaParser used for call after call on changing texts, as by the     *)
(* editor integration (`const parser = new VnaParser()` at module level).  *)

MaxHistory == 2

EditorContents ==
    DelimContents
    \cup {GoodFrontmatter(<<>>) \o <<stray>> \o Body0 : stray \in {<<>>, <<"x">>}}
    \cup {GoodFrontmatter(<<>>) \o TwoSections(<<>>, <<>>, <<pair, OkPair>>, 1) :
             pair \in {OkPair, CountPair, BeatPair}}

InitEditor ==
    /\ content = <<>>
    /\ lines = <<>>
    /\ currentLine = 0
    /\ call = "none"
    /\ result = NoResult
    /\ history = <<>>
    /\ WasmIdle
    /\ EditorIdle
    /\ ScanIdle

\* what the caller of parse() gets
ParseOutcome(p) ==
    IF p.ok THEN [NoResult EXCEPT !.returned = "document", !.doc = p.doc]
    ELSE [NoResult EXCEPT !.returned = "thrown", !.err = p.err]

\* what the caller of validate() gets
IssuesOutcome(v) == [NoResult EXCEPT !.returned = "issues", !.issues = v.issues]

\* the record of the call that the next call comes after
Earlier == IF call = "none" THEN history ELSE Append(history, result.returned)

\* parser.parse(text) on the shared instance
EditorParse(text) ==
    /\ Len(Earlier) <= MaxHistory
    /\ content' = text
    /\ lines' = text
    /\ currentLine' = parseOn(text, currentLine).cur
    /\ call' = "parse"
    /\ result' = ParseOutcome(parseOn(text, currentLine))
    /\ history' = Earlier
    /\ UNCHANGED <<wasmVars, editorVars, scan>>

\* parser.validate(text) on the shared instance
EditorValidate(text) ==
    /\ Len(Earlier) <= MaxHistory
    /\ content' = text
    /\ lines' = text
    /\ currentLine' = validateOn(text, currentLine).cur
    /\ call' = "validate"
    /\ result' = IssuesOutcome(validateOn(text, currentLine))
    /\ history' = Earlier
    /\ UNCHANGED <<wasmVars, editorVars, scan>>

\* formatVnaDocument(document): `return '';`, the text of one empty line
formatVnaDocument(document) == <<<<>>>>

\* what formatDocument returns given what parser.parse did
FormatOutcome(text, p) ==
    [NoResult EXCEPT !.returned = "formatted",
                     !.formatted = IF p.ok THEN formatVnaDocument(p.doc) ELSE text]

\* formatDocument(text)
FormatDocument(text) ==
    /\ Len(Earlier) <= MaxHistory
    /\ content' = text
    /\ lines' = text
    /\ currentLine' = parseOn(text, currentLine).cur
    /\ call' = "formatDocument"
    /\ result' = FormatOutcome(text, parseOn(text, currentLine))
    /\ history' = Earlier
    /\ UNCHANGED <<wasmVars, editorVars, scan>>

NextEditor ==
    \E text \in EditorContents :
        EditorParse(text) \/ EditorValidate(text) \/ FormatDocument(text)

SpecEditor == InitEditor /\ [][NextEditor]_vars

-----------------------------------------------------------------------------
(* The wrappers of the wasm engine (latex-pdf-generator.js).  The engine   *)
(* itself (./pkg/vna.js) is called, not modelled: each of its methods      *)
(* either returns or throws, and what it throws may or may not be a memory *)
(* error.  A call advances from one await to the next in one step.         *)

Ops == {"parseVna", "validateVna", "formatVna"}

ContentLengths == {1, MaxContentLength, MaxContentLength + 1}

\* what init() and the engine's methods can do: "memory" is an exception whose
\* message includes 'memory' or 'bounds', "error" any other exception
InitOutcomes == {"ready", "error", "memory"}

EngineOutcomes(op) ==
    IF op = "validateVna" THEN {"issues", "noIssues", "error", "memory"}
    ELSE {"value", "error", "memory"}

InFlight(c) == calls[c].pc \notin {"idle", "done"}

InitWasm ==
    /\ content = <<>>
    /\ lines = <<>>
    /\ currentLine = 0
    /\ call = "none"
    /\ result = NoResult
    /\ history = <<>>
    /\ WasmIdle
    /\ EditorIdle
    /\ ScanIdle

\* getParser() up to its first await, in the call with record k
GetParserCall(k) ==
    IF parserInstance # 0 THEN [k EXCEPT !.pc = "resume", !.parser = parserInstance]
    ELSE IF ~wasmInitialized THEN [k EXCEPT !.pc = "getParserInit"]
    ELSE [k EXCEPT !.pc = "getParserReturn"]

Returned(k, ran, empty) ==
    [k EXCEPT !.pc = "done",
              !.outcome = [kind |-> "returned", error |-> "none", ran |-> ran,
                           empty |-> empty]]

Thrown(k, error) ==
    [k EXCEPT !.pc = "done",
              !.outcome = [kind |-> "thrown", error |-> error, ran |-> FALSE,
                           empty |-> FALSE]]

\* the first exception the catch block of the call received
FirstCaught(k, kind) == [k EXCEPT !.caught = IF @ = "none" THEN kind ELSE @]

\* a catch block of parseVna that tries once more after any exception
Caught_RetryAny(c, kind, k) ==
    IF k.op = "parseVna" /\ ~k.retry
    THEN /\ wasmInitialized' = FALSE
         /\ parserInstance' = 0
         /\ calls' = [calls EXCEPT ![c] =
                         [FirstCaught(k, kind) EXCEPT !.retry = TRUE,
                              !.pc = "retryInit", !.parser = 0,
                              !.known = instances]]
    ELSE /\ calls' = [calls EXCEPT ![c] =
                IF k.op = "parseVna"
                THEN Thrown(FirstCaught(k, kind), "Parser memory error")
                ELSE Returned(FirstCaught(k, kind), FALSE, k.op = "validateVna")]
         /\ UNCHANGED <<wasmInitialized, parserInstance>>

\* the catch block of the wrapper, for an exception of the given kind thrown in
\* its try block when the call's record is k; the catch of parseVna resets the
\* module for a memory error and starts initializeWasm() again
Caught(c, kind, k) ==
    IF k.op = "parseVna" /\ ~k.retry /\ kind = "memory"
    THEN /\ wasmInitialized' = FALSE
         /\ parserInstance' = 0
         /\ calls' = [calls EXCEPT ![c] =
                         [FirstCaught(k, kind) EXCEPT !.retry = TRUE,
                              !.pc = "retryInit", !.parser = 0,
                              !.known = instances]]
    ELSE /\ calls' = [calls EXCEPT ![c] =
                IF k.op = "parseVna"
                THEN Thrown(FirstCaught(k, kind),
                            IF k.retry THEN "Parser memory error" ELSE kind)
                ELSE Returned(FirstCaught(k, kind), FALSE, k.op = "validateVna")]
         /\ UNCHANGED <<wasmInitialized, parserInstance>>

\* the calls once the call c of the wrapper op has run up to its first await
Started(c, op, length) ==
    [d \in CallIds |->
        IF d = c
        THEN GetParserCall([NoCall EXCEPT !.op = op, !.length = length,
                                !.overlapped = {e \in CallIds : InFlight(e)}])
        ELSE IF InFlight(d) THEN [calls[d] EXCEPT !.overlapped = @ \cup {c}]
        ELSE calls[d]]

\* parseVna(content), validateVna(content) or formatVna(content) is called
Begin(c, op, length) ==
    /\ calls[c].pc = "idle"
    /\ \A d \in CallIds : d < c => calls[d].pc # "idle"
    /\ calls' = Started(c, op, length)
    /\ UNCHANGED <<wasmInitialized, parserInstance, instances, engineCalls,
                   parserVars, editorVars>>

\* the init() that initializeWasm() awaits settles
InitSettles(c, outcome) ==
    /\ calls[c].pc \in {"getParserInit", "retryInit"}
    /\ IF outcome = "ready"
       THEN /\ instances' = instances + 1
            /\ parserInstance' = instances + 1
            /\ wasmInitialized' = TRUE
            /\ calls' = [calls EXCEPT ![c].pc =
                            IF @ = "retryInit" THEN "retryGetParser"
                            ELSE "getParserReturn"]
       ELSE /\ Caught(c, outcome, calls[c])
            /\ UNCHANGED instances
    /\ editor' = Settled(c, calls'[c])
    /\ UNCHANGED <<engineCalls, parserVars>>

\* getParser() after its await: `return parserInstance!`
GetParserReturn(c) ==
    /\ calls[c].pc = "getParserReturn"
    /\ calls' = [calls EXCEPT ![c].pc = "resume", ![c].parser = parserInstance]
    /\ UNCHANGED <<wasmInitialized, parserInstance, instances, engineCalls,
                   parserVars, editorVars>>

\* the catch block of parseVna after its `await initializeWasm()`
RetryGetParser(c) ==
    /\ calls[c].pc = "retryGetParser"
    /\ calls' = [calls EXCEPT ![c] = GetParserCall(calls[c])]
    /\ UNCHANGED <<wasmInitialized, parserInstance, instances, engineCalls,
                   parserVars, editorVars>>

\* the record of a call that has invoked the engine's method on its parser
Invoked(k) == [k EXCEPT !.used = @ \cup {k.parser}, !.attempts = @ + 1]

\* the engine's method is invoked on the call's parser and returns or throws
Invoke(c, outcome) ==
    /\ engineCalls' = engineCalls \cup
           {[call |-> c, op |-> calls[c].op, instance |-> calls[c].parser,
             length |-> calls[c].length, retry |-> calls[c].retry]}
    /\ IF outcome \in {"error", "memory"}
       THEN Caught(c, outcome, Invoked(calls[c]))
       ELSE /\ calls' = [calls EXCEPT ![c] =
                   Returned(Invoked(calls[c]), TRUE, outcome = "noIssues")]
            /\ UNCHANGED <<wasmInitialized, parserInstance>>

\* the wrapper after `await getParser()`
Resume(c) ==
    /\ calls[c].pc = "resume"
    /\ IF calls[c].op = "parseVna" /\ ~calls[c].retry
          /\ calls[c].length > MaxContentLength
       THEN Caught(c, "VNA file too large", calls[c]) /\ UNCHANGED engineCalls
       ELSE IF calls[c].parser = 0
       THEN Caught(c, "error", calls[c]) /\ UNCHANGED engineCalls
       ELSE \E outcome \in EngineOutcomes(calls[c].op) : Invoke(c, outcome)
    /\ editor' = Settled(c, calls'[c])
    /\ UNCHANGED <<instances, parserVars>>

NextWasm ==
    \E c \in CallIds :
        \/ \E op \in Ops : \E length \in ContentLengths : Begin(c, op, length)
        \/ \E outcome \in InitOutcomes : InitSettles(c, outcome)
        \/ GetParserReturn(c)
        \/ RetryGetParser(c)
        \/ Resume(c)

SpecWasm == InitWasm /\ [][NextWasm]_vars

-----------------------------------------------------------------------------
(* parse() of parser.ts, one turn of the loops of parseSections() and      *)
(* parseSection() at a time.                                               *)

advanceLine_Stay(cur) == cur

\* advanceLine(): `this.currentLine++`
advanceLine(cur) == cur + 1

\* currentLineTrimmed() was called with the cursor at each of curs in turn
RECURSIVE ReadEach(_, _)
ReadEach(reads, curs) ==
    IF curs = <<>> THEN reads
    ELSE ReadEach(IF Head(curs) < Len(reads)
                  THEN [reads EXCEPT ![Head(curs) + 1] = @ + 1]
                  ELSE reads,
                  Tail(curs))

\* the cursors with which parsePhrase(), started at cur and ended as p, called
\* currentLineTrimmed(): the test for `@gati:` and its value, the swara line,
\* the sahitya line, and for aligned lines the test for `phrases = ` and its value
PhraseReads(ls, cur, p) ==
    LET hasGati == currentLineStartsWith(ls, cur, AT_GATI)
        c1 == IF hasGati THEN cur + 1 ELSE cur
    IN (IF hasGati THEN <<cur, cur>> ELSE <<cur>>)
       \o <<c1, c1 + 1>>
       \o (IF ~p.ok THEN <<>>
           ELSE IF currentLineStartsWith(ls, c1 + 2, PHRASES_EQ)
           THEN <<c1 + 2, c1 + 2>>
           ELSE <<c1 + 2>>)

\* texts with blank lines before, inside and after a section
SpacedContents ==
    {GoodFrontmatter(<<>>) \o before \o <<HDR_a>> \o inside \o OkPair \o after \o rest :
        before \in {<<>>, <<<<>>>>},
        inside \in {<<>>, <<<<>>>>, <<<<" ">>>>},
        after \in {<<>>, <<<<>>>>},
        rest \in {<<>>, OkPair, <<HDR_b>> \o OkPair}}

ScanContents == Contents \cup SpacedContents

\* one more turn of a loop, which read the lines at curs and left parse() at pc
Turn(pc, curs) ==
    [pc |-> pc, turns |-> scan.turns + 1, reads |-> ReadEach(scan.reads, curs)]

InitScan ==
    /\ content = <<<<>>>>
    /\ lines = <<>>
    /\ currentLine = 0
    /\ call = "none"
    /\ result = NoResult
    /\ history = <<>>
    /\ WasmIdle
    /\ EditorIdle
    /\ ScanIdle

\* parse(content) is called with the text and runs up to the loop of
\* parseSections()
ScanStart(text) ==
    /\ scan.pc = "idle"
    /\ content' = text
    /\ lines' = text
    /\ currentLine' = parseMetadata(text).cur
    /\ scan' = [pc |-> IF parseMetadata(text).ok THEN "sections" ELSE "thrown",
                turns |-> 0,
                reads |-> [k \in 1..Len(text) |-> 0]]
    /\ UNCHANGED <<call, result, history, wasmVars, editorVars>>

\* the test of the while loop of parseSections() and, when it holds, the turn
\* of the loop up to the loop of parseSection()
SectionsStep ==
    /\ scan.pc = "sections"
    /\ LET line == currentLineTrimmed(lines, currentLine)
       IN IF currentLine >= Len(lines)
          THEN /\ scan' = [scan EXCEPT !.pc = "returned"]
               /\ UNCHANGED currentLine
          ELSE IF IsHeader(line)
          THEN /\ scan' = Turn("section", <<currentLine, currentLine>>)
               /\ currentLine' = advanceLine(currentLine)
          ELSE IF line # <<>> /\ ~StartsWith(line, <<"#">>)
          THEN /\ scan' = Turn("thrown", <<currentLine>>)
               /\ UNCHANGED currentLine
          ELSE /\ scan' = Turn("sections", <<currentLine>>)
               /\ currentLine' = advanceLine(currentLine)
    /\ UNCHANGED <<content, lines, call, result, history, wasmVars, editorVars>>

\* the turn of the loop of parseSection() that calls parsePhrase()
PhraseStep(p) ==
    /\ scan' = Turn(IF p.ok THEN "section" ELSE "thrown",
                    <<currentLine>> \o PhraseReads(lines, currentLine, p))
    /\ currentLine' = p.cur

\* the test of the while loop of parseSection() and, when it holds, one turn of
\* the loop; the loop ends at the end of the lines and at a section header
SectionStep ==
    /\ scan.pc = "section"
    /\ LET line == currentLineTrimmed(lines, currentLine)
       IN IF currentLine >= Len(lines)
          THEN /\ scan' = [scan EXCEPT !.pc = "sections"]
               /\ UNCHANGED currentLine
          ELSE IF line = <<>> \/ StartsWith(line, <<"#">>) \/ StartsWith(line, AT_GATI)
          THEN /\ scan' = Turn("section", <<currentLine>>)
               /\ currentLine' = advanceLine(currentLine)
          ELSE IF IsHeader(line)
          THEN /\ scan' = Turn("sections", <<currentLine>>)
               /\ UNCHANGED currentLine
          ELSE IF Includes(line, BAR)
          THEN PhraseStep(parsePhrase(lines, currentLine))
          ELSE /\ scan' = Turn("thrown", <<currentLine>>)
               /\ UNCHANGED currentLine
    /\ UNCHANGED <<content, lines, call, result, history, wasmVars, editorVars>>

NextScan ==
    \/ \E text \in ScanContents : ScanStart(text)
    \/ SectionsStep
    \/ SectionStep

SpecScan == InitScan /\ [][NextScan]_vars

-----------------------------------------------------------------------------
(* VNAEditor (gamaka.ts 109-125): the effect that parses vnaContent with   *)
(* VNAParser.parse of vna-parser-wasm.ts, which awaits parseVna.           *)

EmptyContent == <<<<>>>>

\* the values of the prop vnaContent
VnaTexts == {EmptyContent, <<<<"S">>>>, <<<<"R">>>>}

\* content.length of the text joined with '\n'
RECURSIVE ContentLength(_)
ContentLength(text) ==
    IF text = <<>> THEN 0
    ELSE IF Len(text) = 1 THEN Len(text[1])
    ELSE Len(text[1]) + 1 + ContentLength(Tail(text))

InitVNAEditor ==
    /\ content = EmptyContent
    /\ lines = <<>>
    /\ currentLine = 0
    /\ call = "none"
    /\ result = NoResult
    /\ history = <<>>
    /\ WasmIdle
    /\ EditorIdle
    /\ ScanIdle

\* the prop vnaContent changes to text and the effect runs: `if (vnaContent)`
\* it calls VNAParser.parse(vnaContent), which runs up to its first await
ContentChange(text) ==
    /\ text # content
    /\ content' = text
    /\ IF text = EmptyContent
       THEN UNCHANGED <<calls, editor>>
       ELSE \E c \in CallIds :
               /\ calls[c].pc = "idle"
               /\ \A d \in CallIds : d < c => calls[d].pc # "idle"
               /\ calls' = Started(c, "parseVna", ContentLength(text))
               /\ editor' = [editor EXCEPT !.parses[c] = text]
    /\ UNCHANGED <<lines, currentLine, call, result, history, scan,
                   wasmInitialized, parserInstance, instances, engineCalls>>

NextVNAEditor ==
    \/ \E text \in VnaTexts : ContentChange(text)
    \/ \E c \in CallIds :
          \/ \E outcome \in InitOutcomes : InitSettles(c, outcome)
          \/ GetParserReturn(c)
          \/ RetryGetParser(c)
          \/ Resume(c)

SpecVNAEditor == InitVNAEditor /\ [][NextVNAEditor]_vars

-----------------------------------------------------------------------------
(* parseSwaraLine on its own: the content is one line that holds one token.*)

MaxSwaraLen == 4

SwaraChars == {"S", "R", "1", "4", ".", "'", "-", ",", ":"}

SwaraInputs == UNION {[1..n -> SwaraChars] : n \in 1..MaxSwaraLen}

InitSwara ==
    /\ content \in {<<t>> : t \in SwaraInputs}
    /\ lines = <<>>
    /\ currentLine = 0
    /\ call = "none"
    /\ result = NoResult
    /\ history = <<>>
    /\ WasmIdle
    /\ EditorIdle
    /\ ScanIdle

\* VNAParser.parseSwaraLine(token) of vna-parser-wasm.ts, as drawSahitya calls it
ParseSwaraLine ==
    /\ call' = "parseSwaraLine"
    /\ result' = [NoResult EXCEPT !.returned = "swaras",
                                  !.swaras = parseSwaraLine(content[1])]
    /\ UNCHANGED <<content, lines, currentLine, history, wasmVars, editorVars, scan>>

\* VNAParser.parseSwaraLine(swaraLine) of vna-parser.ts
LibParseSwaraLine ==
    /\ call' = "libParseSwaraLine"
    /\ result' = [NoResult EXCEPT !.returned = "swaras",
                                  !.swaras = VNAParser_parseSwaraLine(content[1])]
    /\ UNCHANGED <<content, lines, currentLine, history, wasmVars, editorVars, scan>>

NextSwara == ParseSwaraLine \/ LibParseSwaraLine

SpecSwara == InitSwara /\ [][NextSwara]_vars

-----------------------------------------------------------------------------
(* C3: the tokens and the beat positions of a note or lyric line.          *)

\* a beat marker written as a word of its own: `|`, `||`, ...
IsMarker(w) == w # <<>> /\ \A i \in 1..Len(w) : w[i] = BAR

\* every `|` of the line stands in a marker word
WellSpaced(line) == \A i \in 1..Len(Words(line)) :
    IsMarker(Words(line)[i]) \/ ~Includes(Words(line)[i], BAR)

NotMarker(w) == ~IsMarker(w)

\* the whitespace-delimited tokens of the line other than the beat markers
LineTokens(line) == SelectSeq(Words(line), NotMarker)

Repeat(n, x) == [i \in 1..n |-> x]

\* For each `|` of the marker words, in order, the number of tokens before
\* it; the two `|` of a closing `||` are left out, and so is a `|` with no
\* token before it unless withZero.
RECURSIVE MarkerPositions(_, _, _, _, _)
MarkerPositions(ws, i, count, closing, withZero) ==
    IF i > Len(ws) THEN <<>>
    ELSE IF IsMarker(ws[i])
         THEN LET bars == IF i = Len(ws) /\ closing THEN Len(ws[i]) - 2 ELSE Len(ws[i])
              IN (IF count > 0 \/ withZero THEN Repeat(bars, count) ELSE <<>>)
                 \o MarkerPositions(ws, i + 1, count, closing, withZero)
         ELSE MarkerPositions(ws, i + 1, count + 1, closing, withZero)

LinePositions(line, withZero) ==
    MarkerPositions(Words(line), 1, 0, EndsWith(Trim(line), <<BAR, BAR>>), withZero)

NotationInput == Trim(content[1])

-----------------------------------------------------------------------------
(* Reading a content as its author does: the note and lyric lines are the  *)
(* lines with a `|`, two by two.                                           *)

RECURSIVE BarLinesFrom(_, _)
BarLinesFrom(text, k) ==
    IF k > Len(text) THEN <<>>
    ELSE (IF Includes(text[k], BAR) THEN <<k>> ELSE <<>>) \o BarLinesFrom(text, k + 1)

BarLines(text) == BarLinesFrom(text, 1)

\* the lines with a `|` come in pairs of a note line and the lyric line after it
Paired(text) ==
    /\ Len(BarLines(text)) % 2 = 0
    /\ \A j \in 1..Len(BarLines(text)) :
         j % 2 = 1 => BarLines(text)[j + 1] = BarLines(text)[j] + 1

\* the (1-based) numbers of the note lines
NoteLines(text) == {BarLines(text)[j] : j \in {i \in 1..Len(BarLines(text)) : i % 2 = 1}}

SwaraOf(text, k) == LineTokens(Trim(text[k]))
SahityaOf(text, k) == LineTokens(Trim(text[k + 1]))

ErrorsOf(issues) == {i \in 1..Len(issues) : issues[i].severity = "error"}
WarningsOf(issues) == {i \in 1..Len(issues) : issues[i].severity = "warning"}

\* text without its lines numbered in ks
RECURSIVE WithoutLines(_, _, _)
WithoutLines(text, ks, k) ==
    IF k > Len(text) THEN <<>>
    ELSE (IF k \in ks THEN <<>> ELSE <<text[k]>>) \o WithoutLines(text, ks, k + 1)

-----------------------------------------------------------------------------
(* C2: the token counts of the two lines of a phrase.                      *)

EqualCounts(doc) ==
    \A si \in 1..Len(doc.sections) : \A pi \in 1..Len(doc.sections[si].phrases) :
        Len(doc.sections[si].phrases[pi].swaras)
            = Len(doc.sections[si].phrases[pi].sahitya)

\* C2 as stated: every phrase of every Document that parse returns has as many
\* swara tokens as sahitya tokens (here for the texts whose note and lyric
\* lines all hold a token).
C2_Original ==
    (/\ call = "parse"
     /\ result.returned = "document"
     /\ Paired(content)
     /\ \A k \in NoteLines(content) :
          SwaraOf(content, k) # <<>> /\ SahityaOf(content, k) # <<>>)
    => EqualCounts(result.doc)

\* C2 amended: every phrase of a Document that parse returns for a text on
\* which validate reports no error has as many swara tokens as sahitya tokens.
C2_EqualCountsWhenValid ==
    (/\ call = "parse"
     /\ result.returned = "document"
     /\ ErrorsOf(validate(content).issues) = {})
    => EqualCounts(result.doc)

\* a Document with a two-token phrase was returned for a text without errors
C2_Witness ==
    /\ call = "parse"
    /\ result.returned = "document"
    /\ ErrorsOf(validate(content).issues) = {}
    /\ \E si \in 1..Len(result.doc.sections) :
         \E pi \in 1..Len(result.doc.sections[si].phrases) :
            /\ Len(result.doc.sections[si].phrases[pi].swaras) = 2
            /\ Len(result.doc.sections[si].phrases[pi].sahitya) = 2

-----------------------------------------------------------------------------
(* C4: the token length check.                                             *)

\* a pure rest/sustain marker: only `-` and `,`
PureRest(tok) == tok # <<>> /\ \A i \in 1..Len(tok) : tok[i] \in {"-", ","}

\* the units of a sahitya token: one per `-`, one per run of text between
\* dashes and syllable boundary markers
RECURSIVE UnitCount(_, _)
UnitCount(tok, inText) ==
    IF tok = <<>> THEN 0
    ELSE IF Head(tok) = "-" THEN 1 + UnitCount(Tail(tok), FALSE)
    ELSE IF Head(tok) = TICK THEN UnitCount(Tail(tok), FALSE)
    ELSE (IF inText THEN 0 ELSE 1) + UnitCount(Tail(tok), TRUE)

\* the token length errors that the issues hold for index i (1-based) of the
\* phrase whose note line is line k
LengthErrors(issues, k, i) ==
    {j \in 1..Len(issues) :
        /\ issues[j].severity = "error"
        /\ issues[j].kind = "Token length mismatch"
        /\ issues[j].line = k + 1
        /\ issues[j].info[1] = i}

NoThrownError(issues) ==
    \A j \in 1..Len(issues) :
        issues[j].kind \in {"Unusual tempo", "Unusual gati value",
                            "Token count mismatch", "Token length mismatch"}

\* C4 as stated: in a phrase with equal token counts, index i has a token
\* length error exactly when swara token i is no pure rest/sustain marker and
\* its character count differs from the unit count of sahitya token i, and
\* then it has exactly one (here for the indices whose swara token is no
\* pure rest/sustain marker, in the texts that parse).
C4_Original ==
    (call = "validate" /\ Paired(content) /\ NoThrownError(result.issues))
    => \A k \in NoteLines(content) :
         Len(SwaraOf(content, k)) = Len(SahityaOf(content, k))
         => \A i \in 1..Len(SwaraOf(content, k)) :
              ~PureRest(SwaraOf(content, k)[i])
              => Cardinality(LengthErrors(result.issues, k, i))
                   = IF Len(SwaraOf(content, k)[i])
                          # UnitCount(SahityaOf(content, k)[i], FALSE)
                     THEN 1 ELSE 0

-----------------------------------------------------------------------------
(* C5: the faults of every phrase are reported.                            *)

CountFault(text, k) == Len(SwaraOf(text, k)) # Len(SahityaOf(text, k))

LengthFault(text, k) ==
    /\ ~CountFault(text, k)
    /\ \E i \in 1..Len(SwaraOf(text, k)) :
         /\ ~PureRest(SwaraOf(text, k)[i])
         /\ Len(SwaraOf(text, k)[i]) # Len(SahityaOf(text, k)[i])
         /\ Len(SwaraOf(text, k)[i]) # UnitCount(SahityaOf(text, k)[i], FALSE)

BeatFault(text, k) ==
    LinePositions(Trim(text[k]), FALSE) # LinePositions(Trim(text[k + 1]), FALSE)

\* the issues hold an error of the phrase whose note line is line k
Reported(issues, text, k) ==
    \E j \in ErrorsOf(issues) :
        \/ CountFault(text, k) /\ issues[j].kind = "Token count mismatch"
                               /\ issues[j].line = k
        \/ LengthFault(text, k) /\ issues[j].kind = "Token length mismatch"
                                /\ issues[j].line = k + 1
        \/ BeatFault(text, k) /\ issues[j].kind = "Beat markers misaligned"
                              /\ issues[j].info = <<k>>

\* C5 as stated: the diagnostics of validate hold the errors of every faulty
\* phrase of the document.
C5_Original ==
    (call = "validate" /\ Paired(content))
    => \A k \in NoteLines(content) :
         (CountFault(content, k) \/ LengthFault(content, k) \/ BeatFault(content, k))
         => Reported(result.issues, content, k)

-----------------------------------------------------------------------------
(* C9 and C10: unusual tempo and gati values.                              *)

\* the lines of the text that are `key: ...`
KeyLines(text, key) ==
    {k \in 1..Len(text) : StartsWith(text[k], key \o <<":">>)}

\* the lines of the text that are `@gati: ...`
GatiAnnotationLines(text) ==
    {k \in 1..Len(text) : StartsWith(Trim(text[k]), AT_GATI)}

\* the text after the colon of `key: ...` is an integer
IsIntegerText(s) ==
    LET t == Trim(s)
        u == IF t # <<>> /\ Head(t) = "-" THEN Tail(t) ELSE t
    IN u # <<>> /\ \A i \in 1..Len(u) : u[i] \in Digits

KeyText(text, k, key) == Substring(text[k], Len(key) + 1)

\* the document without the lines ks validates without any diagnostic
ValidApartFrom(text, ks) == validate(WithoutLines(text, ks, 1)).issues = <<>>

\* C9 as stated: a document that is valid apart from its tempo, with an integer
\* tempo below 20 or above 300, gets exactly one warning and no error.
C9_Original ==
    (/\ call = "validate"
     /\ KeyLines(content, K_tempo) # {}
     /\ ValidApartFrom(content, KeyLines(content, K_tempo)))
    => \A k \in KeyLines(content, K_tempo) :
         (/\ IsIntegerText(KeyText(content, k, K_tempo))
          /\ \/ parseInt(KeyText(content, k, K_tempo)).n < MinTempo
             \/ parseInt(KeyText(content, k, K_tempo)).n > MaxTempo)
         => /\ Cardinality(WarningsOf(result.issues)) = 1
            /\ ErrorsOf(result.issues) = {}

\* C10 as stated: a gati outside {3,4,5,7,9} in an `@gati` annotation of a
\* document that is valid apart from its gati values gives a warning and no
\* error (here with a usual or no gati in the metadata).
C10_Original ==
    (/\ call = "validate"
     /\ ValidApartFrom(content, GatiAnnotationLines(content))
     /\ \E k \in GatiAnnotationLines(content) :
          /\ IsIntegerText(Substring(Trim(content[k]), 6))
          /\ parseInt(Substring(Trim(content[k]), 6)).n \notin UsualGati)
    => /\ WarningsOf(result.issues) # {}
       /\ ErrorsOf(result.issues) = {}

-----------------------------------------------------------------------------
(* C1: the required fields of the frontmatter.                             *)

\* the lines between the opening `---` and the closing one
FrontmatterLines(text) ==
    {k \in 2..Len(text) : \A j \in 2..k : Trim(text[j]) # DELIM}

\* a value without the white space and the pair of quotes around it
Unquote(s) ==
    LET t == Trim(s)
    IN IF Len(t) >= 2 /\ Head(t) = Q /\ t[Len(t)] = Q THEN SubSeq(t, 2, Len(t) - 1)
       ELSE t

\* the frontmatter gives the key a value that is not empty
HasValue(text, key) ==
    \E k \in FrontmatterLines(text) :
        /\ StartsWith(text[k], key \o <<":">>)
        /\ Unquote(KeyText(text, k, key)) # <<>>

\* C1 as stated: whenever the frontmatter lacks title, raga or tala or gives
\* one of them an empty value, VNAParser.parse fails and returns no Document.
C1_Original ==
    (/\ call = "libparse"
     /\ \E key \in {K_title, K_raga, K_tala} : ~HasValue(content, key))
    => result.returned = "thrown"

-----------------------------------------------------------------------------
(* C6, C7 and C8: the gati of a phrase.                                    *)

HeaderLines(text) == {k \in 1..Len(text) : IsHeader(Trim(text[k]))}

\* the number of the section a line is in, 0 before the first header
SectionOf(text, k) == Cardinality({h \in HeaderLines(text) : h <= k})

\* the number, in its section, of the phrase whose note line is line k
PhraseOf(text, k) ==
    Cardinality({n \in NoteLines(text) : n <= k /\ SectionOf(text, n) = SectionOf(text, k)})

\* the `@gati` lines of section s
GatiLinesOf(text, s) == {k \in GatiAnnotationLines(text) : SectionOf(text, k) = s}

AnnotationValue(text, k) == parseInt(Substring(Trim(text[k]), 6))

\* an annotation directly under the header of its section
SectionLevel(text, k) == (k - 1) \in HeaderLines(text)

\* an annotation directly before the note line of a phrase that has a phrase
\* of the same section before it and another one after it
LineLevel(text, k) ==
    /\ (k + 1) \in NoteLines(text)
    /\ \E n \in NoteLines(text) : n < k /\ SectionOf(text, n) = SectionOf(text, k)
    /\ \E n \in NoteLines(text) : n > k + 1 /\ SectionOf(text, n) = SectionOf(text, k)

\* a token with an inline `:n`
TokenOverride(tok) == Includes(tok, ":")

NoTokenOverride(text, s) ==
    \A n \in NoteLines(text) :
        SectionOf(text, n) = s
        => \A i \in 1..Len(SwaraOf(text, n)) : ~TokenOverride(SwaraOf(text, n)[i])

\* the gati the frontmatter gives, Undef when it gives none
MetadataGati(text) ==
    IF \E k \in FrontmatterLines(text) : StartsWith(text[k], K_gati \o <<":">>)
    THEN parseInt(KeyText(text, CHOOSE k \in FrontmatterLines(text) :
                                  StartsWith(text[k], K_gati \o <<":">>), K_gati))
    ELSE Undef

\* a gati as a number, whether the document holds it as a number or as text
NumberOf(v) == IF v.k = "str" THEN parseInt(v.s) ELSE v

\* what StaffCanvas computes for phrase pi of section si of a text
LibEffectiveGati(text, si, pi) ==
    LET d == VNAParser_parse(text).doc
    IN effectiveGati(d.sections[si].phrases[pi], d.sections[si],
                     documentGatiProp(d.metadata))

\* C6: with the document gati 4 and `@gati: 3` under the header of a section
\* that has no other gati annotation and no token override, StaffCanvas draws
\* every phrase of that section with gati 3 and the phrases of the other
\* sections as without the annotation; the metadata gati stays 4, and
\* VnaParser.parse gives that section the gati 3 and leaves the metadata and
\* the other sections as without the annotation.
C6_SectionGati ==
    (call = "render" /\ MetadataGati(content) = Num(4))
    => \A k \in GatiAnnotationLines(content) :
         LET s == SectionOf(content, k)
             without == WithoutLines(content, {k}, 1)
         IN (/\ SectionLevel(content, k)
             /\ AnnotationValue(content, k) = Num(3)
             /\ GatiLinesOf(content, s) = {k}
             /\ NoTokenOverride(content, s))
            => /\ result.staff.section = s
                  => NumberOf(result.staff.effectiveGati) = Num(3)
               /\ result.staff.section # s
                  => result.staff.effectiveGati
                       = LibEffectiveGati(without, result.staff.section,
                                          result.staff.phraseIndex)
               /\ NumberOf(result.doc.metadata.gati) = Num(4)
               /\ result.doc.metadata = VNAParser_parse(without).doc.metadata
               /\ parse(content).ok
               /\ parse(content).doc.metadata.gati = Num(4)
               /\ \A j \in 1..Len(parse(content).doc.sections) :
                    parse(content).doc.sections[j].gati
                      = IF j = s THEN Num(3) ELSE parse(without).doc.sections[j].gati

\* a phrase of section [a], which has `@gati: 3`, is drawn with gati 3 in a
\* document of gati 4 whose section [b] has a phrase too
C6_Witness ==
    /\ call = "render"
    /\ content = GoodFrontmatter(<<NumberLine(K_gati, <<"4">>)>>)
                   \o TwoSections(<<GatiLine(3)>>, <<>>, <<OkPair, OkPair>>, 1)
    /\ result.staff.section = 1
    /\ result.staff.effectiveGati = Num(3)

\* C7 as stated: an `@gati: 5` directly before the note line of one phrase,
\* with phrases before and after it in the section, gives that phrase the gati
\* 5 and leaves the section's own gati and the gati of the sibling phrases as
\* they are without the annotation (here in documents with no other gati
\* annotation and no token override, as VnaParser.parse returns them).
C7_Original ==
    (call = "parse" /\ result.returned = "document" /\ Paired(content))
    => \A k \in GatiAnnotationLines(content) :
         LET s == SectionOf(content, k)
             without == parse(WithoutLines(content, {k}, 1)).doc
         IN (/\ LineLevel(content, k)
             /\ AnnotationValue(content, k) = Num(5)
             /\ GatiAnnotationLines(content) = {k}
             /\ NoTokenOverride(content, s))
            => /\ result.doc.sections[s].gati = without.sections[s].gati
               /\ \A pi \in 1..Len(result.doc.sections[s].phrases) :
                    result.doc.sections[s].phrases[pi].gati
                      = IF pi = PhraseOf(content, k + 1) THEN Num(5)
                        ELSE without.sections[s].phrases[pi].gati

\* the note line of the phrase StaffCanvas drew
DrawnNoteLine(text, staff) ==
    CHOOSE n \in NoteLines(text) :
        SectionOf(text, n) = staff.section /\ PhraseOf(text, n) = staff.phraseIndex

\* the gati of a token by the precedence of the levels: the token's `:n`, the
\* annotation of its section, the metadata, 4 (no line level here)
ExpectedGati(text, n, tok) ==
    IF TokenOverride(tok) THEN parseInt(Substring(tok, IndexOf(tok, ":")))
    ELSE IF GatiLinesOf(text, SectionOf(text, n)) # {}
    THEN AnnotationValue(text, CHOOSE k \in GatiLinesOf(text, SectionOf(text, n)) : TRUE)
    ELSE IF MetadataGati(text) # Undef THEN MetadataGati(text)
    ELSE Num(4)

\* C8 as stated, for the gati: the effective gati of every token of a drawn
\* phrase is the first present of the token's `:n`, the section's annotation,
\* the metadata gati and 4 (here in documents whose gati annotations all stand
\* directly under a section header).
C8_Original ==
    (/\ call = "render"
     /\ Paired(content)
     /\ \A k \in GatiAnnotationLines(content) : SectionLevel(content, k))
    => LET n == DrawnNoteLine(content, result.staff)
       IN \A i \in 1..Len(SwaraOf(content, n)) :
            NumberOf(result.staff.effectiveGati)
              = ExpectedGati(content, n, SwaraOf(content, n)[i])

-----------------------------------------------------------------------------
(* C11: the delimiters of the metadata block.                              *)

DelimiterLines(text) == {k \in 1..Len(text) : Trim(text[k]) = DELIM}

\* C11 as stated: a text whose metadata block lacks its opening or its closing
\* delimiter line is rejected: VnaParser.parse returns no Document.
C11_Original ==
    (call = "parse" /\ Cardinality(DelimiterLines(content)) < 2)
    => result.returned = "thrown"

-----------------------------------------------------------------------------
(* C12: body lines before the first section header.                        *)

\* the line of the closing delimiter, 0 when the block is not closed
ClosingLine(text) ==
    IF Cardinality(DelimiterLines(text)) < 2 THEN 0
    ELSE CHOOSE k \in DelimiterLines(text) :
             Cardinality({j \in DelimiterLines(text) : j < k}) = 1

\* the lines after the frontmatter that are neither blank nor a comment and
\* that no section header precedes
StrayLines(text) ==
    {k \in 1..Len(text) :
        /\ ClosingLine(text) > 0
        /\ k > ClosingLine(text)
        /\ SectionOf(text, k) = 0
        /\ Trim(text[k]) # <<>>
        /\ ~StartsWith(Trim(text[k]), <<"#">>)}

\* C12 as stated: a non-blank, non-comment body line before the first section
\* header makes the parse fail: VNAParser.parse returns no Document.
C12_Original ==
    (call = "libparse" /\ StrayLines(content) # {})
    => result.returned = "thrown"

\* the same statement for VnaParser.parse of parser.ts
C12_ParserRejects ==
    (call = "parse" /\ StrayLines(content) # {})
    => result.returned = "thrown"

-----------------------------------------------------------------------------
(* C13: an error of one section and the sections after it.                 *)

NoteLinesOf(text, s) == {k \in NoteLines(text) : SectionOf(text, k) = s}

\* the header line of section s
HeaderOf(text, s) == CHOOSE h \in HeaderLines(text) : SectionOf(text, h) = s

SectionName(text, s) ==
    SubSeq(Trim(text[HeaderOf(text, s)]), 2, Len(Trim(text[HeaderOf(text, s)])) - 1)

\* section s holds a phrase whose beat markers are misaligned
BrokenSection(text, s) == \E k \in NoteLinesOf(text, s) : BeatFault(text, k)

\* every phrase of section s is a well-formed pair of lines
SoundSection(text, s) ==
    \A k \in NoteLinesOf(text, s) :
        ~BeatFault(text, k) /\ ~CountFault(text, k) /\ ~LengthFault(text, k)

\* the document holds section s of the text with all its phrases
HoldsSection(doc, text, s) ==
    \E i \in 1..Len(doc.sections) :
        /\ doc.sections[i].name = SectionName(text, s)
        /\ Len(doc.sections[i].phrases) = Cardinality(NoteLinesOf(text, s))
        /\ \A k \in NoteLinesOf(text, s) :
              doc.sections[i].phrases[PhraseOf(text, k)].swaras = SwaraOf(text, k)

\* C13 as stated: a structural error in one section aborts only that section;
\* every later well-formed section is in the Document with its phrases.
C13_Original ==
    call = "parse" =>
        \A s1, s2 \in 1..Cardinality(HeaderLines(content)) :
            (s1 < s2 /\ BrokenSection(content, s1) /\ SoundSection(content, s2)
                /\ Paired(content))
            => (result.returned = "document" /\ HoldsSection(result.doc, content, s2))

-----------------------------------------------------------------------------
(* C14: a note line without its lyric line.                                *)

IsBarLine(text, k) == Includes(Trim(text[k]), BAR) /\ ~IsHeader(Trim(text[k]))

\* the note lines that a section header or the end of the text follows: a lyric
\* line closes every note line before them in their section
DanglingLines(text) ==
    {k \in 1..Len(text) :
        /\ IsBarLine(text, k)
        /\ SectionOf(text, k) > 0
        /\ Cardinality({j \in 1..(k - 1) :
               IsBarLine(text, j) /\ SectionOf(text, j) = SectionOf(text, k)}) % 2 = 0
        /\ (k = Len(text) \/ IsHeader(Trim(text[k + 1])))}

\* the document has one section for each header line of the text, in order
HeadersKept(doc, text) ==
    /\ Len(doc.sections) = Cardinality(HeaderLines(text))
    /\ \A s \in 1..Len(doc.sections) : doc.sections[s].name = SectionName(text, s)

\* C14 as stated: for a note line that a section header or the end of input
\* follows, validate reports an error, and the header after it is still a
\* header: the sections of the Document are those of the header lines.
C14_Original ==
    DanglingLines(content) # {} =>
        /\ call = "validate" => ErrorsOf(result.issues) # {}
        /\ (call = "parse" /\ result.returned = "document")
               => HeadersKept(result.doc, content)

\* the part of C14 about the report alone
C14_ErrorReported ==
    (call = "validate" /\ DanglingLines(content) # {}) => ErrorsOf(result.issues) # {}

\* the same statement for the static VNAParser, which has no diagnostics:
\* the text with a dangling note line is not accepted as if it were complete
C14_LibRejects ==
    (call = "libparse" /\ DanglingLines(content) # {}) => result.returned = "thrown"

-----------------------------------------------------------------------------
(* C20: the `phrases = ...` line of a phrase.                              *)

\* the `phrases = ...` lines that follow a note line and its lyric line
AnalysisLines(text) ==
    {k \in 3..Len(text) :
        StartsWith(Trim(text[k]), PHRASES_EQ) /\ (k - 2) \in NoteLines(text)}

AnalysisText(text, k) == Trim(Substring(Trim(text[k]), Len(PHRASES_EQ)))

\* the note lines of the text that have no `phrases = ...` line of their own
Unanalysed(text) == {n \in NoteLines(text) : (n + 2) \notin AnalysisLines(text)}

\* C20 as stated, for the static VNAParser: the analysis is stored with the
\* phrase of the two lines before it, which keeps its tokens; the section has
\* one phrase for each note line and no other phrase carries the analysis.
C20_Original ==
    (call = "libparse" /\ result.returned = "document" /\ Paired(content)) =>
        /\ \A s \in 1..Cardinality(HeaderLines(content)) :
              Len(result.doc.sections[s].phrases) = Cardinality(NoteLinesOf(content, s))
        /\ \A k \in AnalysisLines(content) :
              LET phrase == result.doc.sections[SectionOf(content, k)]
                                .phrases[PhraseOf(content, k - 2)]
              IN /\ phrase.phrases = Str(AnalysisText(content, k))
                 /\ phrase.swaras = Str(Trim(content[k - 2]))
                 /\ phrase.sahitya = Str(Trim(content[k - 1]))
        /\ \A n \in Unanalysed(content) :
              result.doc.sections[SectionOf(content, n)]
                  .phrases[PhraseOf(content, n)].phrases = Undef

\* the same statement for VnaParser.parse of parser.ts
C20_ParserKeeps ==
    (call = "parse" /\ result.returned = "document" /\ Paired(content)
        /\ AnalysisLines(content) # {}) =>
        /\ \A s \in 1..Cardinality(HeaderLines(content)) :
              Len(result.doc.sections[s].phrases) = Cardinality(NoteLinesOf(content, s))
        /\ \A k \in AnalysisLines(content) :
              LET phrase == result.doc.sections[SectionOf(content, k)]
                                .phrases[PhraseOf(content, k - 2)]
              IN /\ phrase.phrase_analysis = Str(AnalysisText(content, k))
                 /\ phrase.swaras = SwaraOf(content, k - 2)
                 /\ phrase.sahitya = SahityaOf(content, k - 2)
        /\ \A n \in Unanalysed(content) :
              result.doc.sections[SectionOf(content, n)]
                  .phrases[PhraseOf(content, n)].phrase_analysis = Undef

C20_ParserWitness ==
    /\ call = "parse" /\ result.returned = "document" /\ Paired(content)
    /\ \E k \in AnalysisLines(content) : (k + 1) \in NoteLines(content)

-----------------------------------------------------------------------------
(* C17: one VnaParser, many calls.                                         *)

\* C17: on a VnaParser that served any earlier parse and validate calls, failed
\* ones included, parse and validate of a text return or throw exactly what a
\* new VnaParser returns or throws for it, the line numbers included.
C17_SameAsFresh ==
    /\ call = "parse" => result = ParseOutcome(parse(content))
    /\ call = "validate" => result = IssuesOutcome(validate(content))

C17_Witness ==
    /\ call = "validate"
    /\ Len(history) = MaxHistory
    /\ history[1] = "thrown"
    /\ history[2] = "document"
    /\ \E i \in ErrorsOf(result.issues) : result.issues[i].line > 1

-----------------------------------------------------------------------------
(* C19: formatDocument.                                                    *)

PhraseTokens(phrase) == <<phrase.swaras, phrase.sahitya>>

SectionTokens(section) ==
    <<section.name, [i \in 1..Len(section.phrases) |-> PhraseTokens(section.phrases[i])]>>

\* the sections, their names, and the tokens of their phrases
DocumentTokens(doc) == [i \in 1..Len(doc.sections) |-> SectionTokens(doc.sections[i])]

\* C19 as stated: the output of formatDocument on a text that parses is a text
\* that parses to the same sections and tokens.
C19_Original ==
    (call = "formatDocument" /\ parse(content).ok) =>
        /\ parse(result.formatted).ok
        /\ DocumentTokens(parse(result.formatted).doc) = DocumentTokens(parse(content).doc)

\* the other half of C19: a text that does not parse is returned unchanged
C19_UnparsedUnchanged ==
    (call = "formatDocument" /\ ~parse(content).ok) => result.formatted = content

-----------------------------------------------------------------------------
(* C15: what validate reports.                                             *)

\* C15 as stated, for validateVna: a validation that could not run is never
\* reported as an empty list of diagnostics.
C15_Original ==
    \A c \in CallIds :
        (calls[c].op = "validateVna" /\ calls[c].pc = "done" /\ ~calls[c].outcome.ran)
        => ~(calls[c].outcome.kind = "returned" /\ calls[c].outcome.empty)

\* the part of C15 about VnaParser.validate: it returns, and when the text
\* does not parse its diagnostics hold an error
C15_ParserReports ==
    (call = "validate" /\ ~parse(content).ok)
    => (result.returned = "issues" /\ ErrorsOf(result.issues) # {})

-----------------------------------------------------------------------------
(* C16: the size limit.                                                    *)

\* C16 as stated: the engine is never invoked on a content longer than
\* 100,000 characters, neither by parseVna nor by validateVna, and parseVna
\* rejects such a content.
C16_Original ==
    /\ \A e \in engineCalls :
          e.op \in {"parseVna", "validateVna"} => e.length <= MaxContentLength
    /\ \A c \in CallIds :
          (calls[c].op = "parseVna" /\ calls[c].pc = "done"
              /\ calls[c].length > MaxContentLength)
          => calls[c].outcome.kind = "thrown"

\* the first attempt of parseVna alone does keep the limit
C16_FirstAttempt ==
    \A e \in engineCalls :
        (e.op = "parseVna" /\ ~e.retry) => e.length <= MaxContentLength

\* the limit stated for validateVna alone and for the retry of parseVna alone;
\* neither holds
C16_ValidateKeepsLimit ==
    \A e \in engineCalls : e.op = "validateVna" => e.length <= MaxContentLength

C16_RetryKeepsLimit ==
    \A e \in engineCalls :
        (e.op = "parseVna" /\ e.retry) => e.length <= MaxContentLength

-----------------------------------------------------------------------------
(* C18: calls that overlap.                                                *)

\* C18 as stated: no engine parser is used by two calls that were in flight
\* together.
C18_Original ==
    \A a, b \in CallIds :
        (a # b /\ b \in calls[a].overlapped) => calls[a].used \cap calls[b].used = {}

-----------------------------------------------------------------------------
(* C21 and C22: the events of a swara token.                               *)

EventKind(e) == IF e.isRest THEN "rest" ELSE IF e.isSustain THEN "sustain" ELSE "note"

EventKinds(swaras) == [i \in 1..Len(swaras) |-> EventKind(swaras[i])]

\* one event for each note letter, `-` and `,` of the token, in order
RECURSIVE ExpectedKinds(_)
ExpectedKinds(token) ==
    IF token = <<>> THEN <<>>
    ELSE (IF Head(token) \in SwaraLetters THEN <<"note">>
          ELSE IF Head(token) = "-" THEN <<"rest">>
          ELSE IF Head(token) = "," THEN <<"sustain">>
          ELSE <<>>) \o ExpectedKinds(Tail(token))

\* C21: each tokenizer returns, in order, one note per note letter of the
\* token, one rest per `-` and one sustain per `,`, alone or inside the token;
\* so both return the same number and kinds of events.
C21_OneEventPerUnit ==
    call \in {"parseSwaraLine", "libParseSwaraLine"}
    => EventKinds(result.swaras) = ExpectedKinds(content[1])

C21_Witness ==
    /\ call = "parseSwaraLine"
    /\ Len(content[1]) = MaxSwaraLen
    /\ EventKinds(result.swaras) = <<"note", "sustain", "rest">>

\* C22 as stated: every note has a variant that is absent or 1, 2 or 3, and an
\* octave mark that is none, `.`, `..`, `'` or `''`; a digit other than 1, 2, 3
\* changes no variant and a run of three marks changes no octave.
C22_Original ==
    call \in {"parseSwaraLine", "libParseSwaraLine"} =>
        /\ \A i \in 1..Len(result.swaras) :
              EventKind(result.swaras[i]) = "note" =>
                  /\ result.swaras[i].variant \in
                         {Undef, Num(1), Num(2), Num(3),
                          Str(<<"1">>), Str(<<"2">>), Str(<<"3">>)}
                  /\ result.swaras[i].octave \in
                         {Undef, Str(<<>>), Str(<<".">>), Str(<<".", ".">>),
                          Str(<<"'">>), Str(<<"'", "'">>)}
        /\ content[1] \in {<<"S", "4">>, <<"S", ".", ".", ".">>, <<"S", "'", "'", "'">>}
              => (result.swaras[1].variant = Undef
                     /\ result.swaras[1].octave \in {Undef, Str(<<>>)})

\* the part of C22 that the tokenizer of vna-parser-wasm.ts keeps
C22_WasmMarks ==
    call = "parseSwaraLine" =>
        /\ \A i \in 1..Len(result.swaras) :
              EventKind(result.swaras[i]) = "note" =>
                  /\ result.swaras[i].variant \in
                         {Undef, Str(<<"1">>), Str(<<"2">>), Str(<<"3">>)}
                  /\ result.swaras[i].octave \in
                         {Undef, Str(<<".">>), Str(<<".", ".">>),
                          Str(<<"'">>), Str(<<"'", "'">>)}
        /\ content[1] \in {<<"S", "4">>, <<"S", ".", ".", ".">>, <<"S", "'", "'", "'">>}
              => (result.swaras[1].variant = Undef /\ result.swaras[1].octave = Undef)

-----------------------------------------------------------------------------
(* C23: the `:n` suffix of a swara token.                                  *)

\* the index of the `:` of a trailing `:n` suffix, 0 when the token has none
SuffixAt(tok) ==
    IF \E q \in 2..(Len(tok) - 1) :
           tok[q] = ":" /\ \A j \in (q + 1)..Len(tok) : tok[j] \in Digits
    THEN CHOOSE q \in 2..(Len(tok) - 1) :
             tok[q] = ":" /\ \A j \in (q + 1)..Len(tok) : tok[j] \in Digits
    ELSE 0

\* the token without its suffix
WithoutSuffix(tok) == IF SuffixAt(tok) = 0 THEN tok ELSE SubSeq(tok, 1, SuffixAt(tok) - 1)

\* C23 as stated: a swara token `X:n` is matched against its sahitya token with
\* the length of `X`: when the sahitya token is as long as `X`, validate reports
\* no token length error for the pair.
C23_Original ==
    (call = "validate" /\ Paired(content)) =>
        \A k \in NoteLines(content) :
            Len(SwaraOf(content, k)) = Len(SahityaOf(content, k))
            => \A i \in 1..Len(SwaraOf(content, k)) :
                 (/\ SuffixAt(SwaraOf(content, k)[i]) > 0
                  /\ Len(WithoutSuffix(SwaraOf(content, k)[i]))
                       = Len(SahityaOf(content, k)[i]))
                 => LengthErrors(result.issues, k, i) = {}

\* the part of C23 about the note events: `X:n` yields the events of `X`
C23_SameEvents ==
    (call \in {"parseSwaraLine", "libParseSwaraLine"} /\ SuffixAt(content[1]) > 0)
    => EventKinds(result.swaras) = ExpectedKinds(WithoutSuffix(content[1]))

-----------------------------------------------------------------------------
(* C24: the units of a sahitya token.                                      *)

\* C24 as stated: the unit count of the sahitya token (one unit per `-`, one
\* per text segment between boundary markers, the letter run and each
\* trailing dash of an unmarked token) is what is compared with the swara
\* token: a pair has a token length error exactly when the two differ.
C24_Original ==
    (call = "validate" /\ Paired(content) /\ NoThrownError(result.issues)) =>
        \A k \in NoteLines(content) :
            Len(SwaraOf(content, k)) = Len(SahityaOf(content, k))
            => \A i \in 1..Len(SwaraOf(content, k)) :
                 (LengthErrors(result.issues, k, i) # {})
                 <=> (Len(SwaraOf(content, k)[i])
                        # UnitCount(SahityaOf(content, k)[i], FALSE))

-----------------------------------------------------------------------------
(* C26: the phrases VNAParser.parseSections collects.                      *)

\* the phrase that VNAParser keeps for the note line k and its lyric line
LibPairAt(doc, text, k) ==
    LET phrases == doc.sections[SectionOf(text, k)].phrases
    IN /\ PhraseOf(text, k) <= Len(phrases)
       /\ phrases[PhraseOf(text, k)].swaras = Str(Trim(text[k]))
       /\ phrases[PhraseOf(text, k)].sahitya = Str(Trim(text[k + 1]))

\* C26 as stated: every note line followed by its lyric line inside a section
\* is one phrase of that section, in source order, the pair after a
\* `phrases = ...` line included, and the section holds no other phrase.
C26_Original ==
    (call = "libparse" /\ result.returned = "document" /\ Paired(content)) =>
        /\ \A k \in NoteLines(content) :
              SectionOf(content, k) > 0 => LibPairAt(result.doc, content, k)
        /\ \A s \in 1..Len(result.doc.sections) :
              Len(result.doc.sections[s].phrases)
                  <= Cardinality(NoteLinesOf(content, s))

\* the same statement for the texts without a `phrases = ...` line
C26_WithoutAnalysis ==
    (call = "libparse" /\ result.returned = "document" /\ Paired(content)
        /\ \A k \in 1..Len(content) : ~StartsWith(Trim(content[k]), PHRASES_EQ)) =>
        \A k \in NoteLines(content) :
            SectionOf(content, k) > 0 => LibPairAt(result.doc, content, k)

-----------------------------------------------------------------------------
(* C27: the line of a diagnostic.                                          *)

PhraseKinds ==
    {"Token count mismatch", "Token length mismatch", "Beat markers misaligned"}

\* the issue is on the note line or the lyric line of a faulty phrase of the text
OnFaultyPhrase(issue, text) ==
    \E k \in NoteLines(text) :
        \/ issue.kind = "Token count mismatch" /\ CountFault(text, k)
              /\ issue.line \in {k, k + 1}
        \/ issue.kind = "Token length mismatch" /\ ~CountFault(text, k)
              /\ issue.line \in {k, k + 1}
        \/ issue.kind = "Beat markers misaligned" /\ BeatFault(text, k)
              /\ issue.line = k

\* C27 as stated: every diagnostic of validate for a faulty phrase carries a
\* 1-based line that is the note line or the lyric line of that phrase, never
\* a line past the end of the text, and the diagnostic of a beat marker
\* misalignment carries the note line of its phrase.
C27_Original ==
    (call = "validate" /\ Paired(content)) =>
        \A j \in ErrorsOf(result.issues) :
            result.issues[j].kind \in PhraseKinds
            => /\ result.issues[j].line \in 1..Len(content)
               /\ OnFaultyPhrase(result.issues[j], content)

\* the part of C27 about the token diagnostics, which validate makes itself
C27_TokenDiagnostics ==
    (call = "validate" /\ Paired(content)) =>
        \A j \in ErrorsOf(result.issues) :
            result.issues[j].kind \in PhraseKinds \ {"Beat markers misaligned"}
            => /\ result.issues[j].line \in 1..Len(content)
               /\ OnFaultyPhrase(result.issues[j], content)

-----------------------------------------------------------------------------
(* C28: the one retry of parseVna.                                         *)

\* the invocations of the engine's parse that the parseVna call c made
ParseInvocations(c) == {e \in engineCalls : e.call = c /\ e.op = "parseVna"}

\* C28: one parseVna call invokes the engine's parse at most twice; it makes a
\* second attempt only after an exception whose message mentions 'memory' or
\* 'bounds', and on a parser created after that exception; any other exception
\* is thrown to the caller as it is, with no second attempt; a second attempt
\* that fails ends with 'Parser memory error'.
C28_OneRetry ==
    \A c \in CallIds :
        calls[c].op = "parseVna" =>
            /\ calls[c].attempts <= 2
            /\ Cardinality({e \in ParseInvocations(c) : ~e.retry}) <= 1
            /\ Cardinality({e \in ParseInvocations(c) : e.retry}) <= 1
            /\ calls[c].retry => calls[c].caught = "memory"
            /\ \A e \in ParseInvocations(c) :
                  e.retry => /\ e.instance > calls[c].known
                             /\ \A f \in ParseInvocations(c) :
                                   ~f.retry => f.instance # e.instance
            /\ (calls[c].pc = "done" /\ calls[c].caught \notin {"none", "memory"})
                  => /\ ~calls[c].retry
                     /\ calls[c].attempts <= 1
                     /\ calls[c].outcome.kind = "thrown"
                     /\ calls[c].outcome.error = calls[c].caught
            /\ (calls[c].pc = "done" /\ calls[c].retry
                    /\ calls[c].outcome.kind = "thrown")
                  => calls[c].outcome.error = "Parser memory error"

\* a parseVna call whose first attempt and second attempt both failed
C28_Witness ==
    \E c \in CallIds :
        /\ calls[c].op = "parseVna"
        /\ calls[c].pc = "done"
        /\ calls[c].attempts = 2
        /\ calls[c].outcome.error = "Parser memory error"

-----------------------------------------------------------------------------
(* C29: initialisation under interleaved calls.                            *)

\* the calls whose catch block has reset the module
Resets == {c \in CallIds : calls[c].retry}

\* C29 as stated: under any interleaving of the wrapper calls, one engine
\* parser is created at most once unless a reset happens in between, getParser
\* never resolves to null, and wasmInitialized holds only if parserInstance is
\* set.
C29_Original ==
    /\ instances <= 1 + Cardinality(Resets)
    /\ \A c \in CallIds : calls[c].pc = "resume" => calls[c].parser # 0
    /\ wasmInitialized => parserInstance # 0

\* the parts of C29, each alone
C29_OneInstance == Resets = {} => instances <= 1

C29_NeverNull == \A c \in CallIds : calls[c].pc = "resume" => calls[c].parser # 0

C29_InitializedHasParser == wasmInitialized => parserInstance # 0

-----------------------------------------------------------------------------
(* C30: what VNAEditor shows after several content changes.                *)

\* the parse that the effect started last: the one for the latest content
LatestParse == CHOOSE c \in CallIds :
    /\ editor.parses[c] # <<>>
    /\ \A d \in CallIds : editor.parses[d] # <<>> => d <= c

\* every parse that the effect started has settled
AllSettled == \A c \in CallIds : editor.parses[c] # <<>> => calls[c].pc = "done"

\* what the component renders: the error if there is one, else the document
Shown ==
    IF editor.error # <<>> THEN <<"error", editor.error>>
    ELSE <<"document", editor.vnaDocument>>

\* what VNAParser.parse gave for the call c
ParseResultOf(c) ==
    IF calls[c].outcome.kind = "returned"
    THEN <<"document", <<editor.parses[c]>>>>
    ELSE <<"error", FailedToParse(calls[c].outcome.error)>>

\* C30 as stated: once the parses started by the content changes have all
\* settled, VNAEditor shows the document or the error that the parse of the
\* latest content gave; a parse of earlier content that completes late does
\* not replace it.
C30_Original ==
    (content # EmptyContent /\ AllSettled) => Shown = ParseResultOf(LatestParse)

\* the part of C30 about the document: the document of the latest content is
\* not replaced by the document of earlier content (it is, see C30_Original)
C30_LatestDocument ==
    (content # EmptyContent /\ AllSettled
        /\ calls[LatestParse].outcome.kind = "returned")
    => editor.vnaDocument = <<content>>

\* the same statement for the parses that were never in flight together
C30_Sequential ==
    (content # EmptyContent /\ AllSettled
        /\ \A c \in CallIds : calls[c].overlapped = {})
    => Shown = ParseResultOf(LatestParse)

C30_SequentialWitness ==
    /\ content # EmptyContent /\ AllSettled
    /\ \A c \in CallIds : calls[c].overlapped = {}
    /\ \A c \in CallIds : editor.parses[c] # <<>>
    /\ editor.error # <<>>
    /\ editor.vnaDocument # <<>>

-----------------------------------------------------------------------------
(* C25: parse() terminates.                                                *)

ScanDone == scan.pc \in {"returned", "thrown"}

\* C25: parse() ends on every input: it returns or throws within 2n + 2 turns
\* of its loops for a text of n lines.  Every turn of the loop of
\* parseSections() and of the loop of parseSection() moves the cursor strictly
\* forward or ends its loop, the cursor never moves backward, and no line is
\* read more than a fixed number of times (four); the cursor and the outcome
\* at the end are those of parse().
C25_Terminates ==
    /\ [][scan.pc \in {"sections", "section"}
            => /\ currentLine' >= currentLine
               /\ currentLine' > currentLine \/ scan'.pc # scan.pc]_vars
    /\ [](scan.turns <= 2 * Len(lines) + 2)
    /\ [](\A k \in 1..Len(scan.reads) : scan.reads[k] <= 4)
    /\ [](ScanDone => /\ currentLine = parse(content).cur
                      /\ (scan.pc = "returned") = parse(content).ok)

\* parse() has returned after turns of both loops: a section with a phrase and
\* a line read four times
C25_Witness ==
    /\ scan.pc = "returned"
    /\ \E k \in 1..Len(scan.reads) : scan.reads[k] = 4
    /\ \E k \in NoteLines(content) : SectionOf(content, k) > 0

====
